---- MODULE Spec2Model ----
(***************************************************************************)
(* CANWorker (core/can_logic.py): the relay loop between the Input and the *)
(* Output CAN bus, its send retry/backoff, and its bus-off recovery.       *)
(* FrameLogger (core/frame_logger.py): the CSV log of relayed frames.      *)
(* parse_rewrite_rules (core/utils.py): the mapping table to rewrite rules.*)
(* MainWindow (core/gui.py): the Start/Stop button and the error slot.     *)
(* Durations are integers in milliseconds (0.2 s = 200).                   *)
(***************************************************************************)
EXTENDS Integers, Sequences, FiniteSets, TLC

VARIABLES
    pc,                 \* position of the worker thread inside run()
    is_running,         \* CANWorker._is_running
    input_bus,          \* CANWorker.input_bus:  "none" | "open" | "shut"
    output_bus,         \* CANWorker.output_bus: "none" | "open" | "shut"
    busoff_streak,      \* CANWorker._busoff_streak
    episodes,           \* recovery episodes started since the last frame was received
    last_tx_time,       \* CANWorker._last_tx_time: 0 = never sent, k = when the k-th accepted send returned
    last_open_error,    \* CANWorker._last_open_error
    retry_on_busoff,    \* CANWorker._retry_on_busoff
    max_retries,        \* CANWorker._max_retries
    retry_delay,        \* CANWorker._retry_delay
    max_send_retries,   \* CANWorker._max_send_retries
    send_retry_initial_delay, \* CANWorker._send_retry_initial_delay
    tx_min_gap,         \* CANWorker._tx_min_gap
    tx_overflow_cooldown, \* CANWorker._tx_overflow_cooldown
    frames_left,        \* frames the two buses will still deliver
    rx,                 \* frame taken by the current poll and the bus it came from
    tx,                 \* message being sent, its bus, and whether it was rewritten
    attempt,            \* loop variable of _send_with_retry_on
    delay,              \* local delay of _send_with_retry_on
    sleeps,             \* time.sleep calls made by the current _send_with_retry_on
    send_result,        \* "none" | "sent" | "dropped": result of the last send
    rec_i,              \* reopen attempts made by the current _attempt_recovery
    rec_log,            \* sleeps and _open_buses calls of the current _attempt_recovery
    exc,                \* exception travelling to run()'s outer handler
    sig,                \* number of emissions of each signal
    last_error,         \* text of the last error_occurred emission
    io_called,          \* some recv or send has been called
    reopened,           \* _open_buses has been called again after run()'s first call
    all_recv_busoff,    \* every recv so far raised a bus-off-classified error
    send_err,           \* last exception raised by bus.send in the current send
    recv_err,           \* exception raised by recv, while its except clause classifies it
    gap_elapsed,        \* now - _last_tx_time read by the min-gap check of the current send
    bus_log,            \* what listeners attached to the two buses have seen
    unshut_lost,        \* buses whose open instance the last _open_buses call replaced
    \* FrameLogger (core/frame_logger.py)
    log_file_path,      \* FrameLogger._log_file_path: "none" | "good" | "bad" | "nul"
    log_file,           \* FrameLogger._log_file: "none" | "open"
    csv_writer,         \* FrameLogger._csv_writer is set
    is_logging,         \* FrameLogger.is_logging
    disk,               \* rows of the file at the good path, as a reader finds them
    buf,                \* rows written to the open file object and not yet flushed
    log_calls,          \* log_frame calls made since the last successful start_logging
    logger_op,          \* the last FrameLogger method called, and how it ended
    \* parse_rewrite_rules (core/utils.py)
    table_data,         \* argument of the call
    parse_result,       \* what the call returned or raised
    \* MainWindow (core/gui.py)
    win_is_running,     \* MainWindow.is_running
    button_text,        \* start_stop_button.text()
    mapping_enabled,    \* mapping_group.isEnabled()
    manager_calls,      \* calls made to can_manager.start_/stop_retransmission
    click,              \* the last slot that ran, with the inputs it read
    message,            \* title of the last _show_error_message dialog
    current_row,        \* mapping_table.currentRow(): -1 when no row is current
    \* CANManager (core/can_logic.py)
    manager,            \* CANManager._thread, .worker and ._frame_logger
    orphans,            \* threads stop_retransmission gave up that still execute run()
    lost_loggers,       \* frame loggers replaced while their file was open
    mgr_op              \* the last CANManager method called, and how it ended

\* the variables of each component
loggervars == <<log_file_path, log_file, csv_writer, is_logging, disk, buf,
                log_calls, logger_op>>
parservars == <<table_data, parse_result>>
windowvars == <<win_is_running, button_text, mapping_enabled, manager_calls,
                click, message, current_row>>
managervars == <<manager, orphans, lost_loggers, mgr_op>>
appvars == <<loggervars, parservars, windowvars, managervars>>
workervars == <<pc, is_running, input_bus, output_bus, busoff_streak,
                episodes, last_tx_time, last_open_error, retry_on_busoff,
                max_retries, retry_delay, max_send_retries,
                send_retry_initial_delay, tx_min_gap, tx_overflow_cooldown,
                frames_left, rx, tx, attempt, delay, sleeps, send_result,
                rec_i, rec_log, exc, sig, last_error, io_called, reopened,
                all_recv_busoff, send_err, recv_err, gap_elapsed, bus_log,
                unshut_lost>>

vars == <<workervars, appvars>>

cfgvars == <<retry_on_busoff, max_retries, retry_delay, max_send_retries,
             send_retry_initial_delay, tx_min_gap, tx_overflow_cooldown>>

----------------------------------------------------------------------------
\* Bounds of the model
MaxFrames == 2          \* frames the environment delivers in one run
MaxRetries == 2         \* largest max_retries tried
MaxSendRetries == 3     \* largest max_send_retries tried
MaxRows == 2            \* longest list of rows handed to parse_rewrite_rules
MaxLoggerCalls == 5     \* calls made on one FrameLogger
MaxClicks == 3          \* button clicks and error notifications of one window
MaxManagerCalls == 4    \* start_/stop_retransmission calls made on one CANManager

\* Program constants
BackoffCap == 200       \* min(delay * 2.0, 0.2)
MinSendAttempts == 1    \* max(1, int(max_send_retries))

Max(a, b) == IF a >= b THEN a ELSE b
Min(a, b) == IF a <= b THEN a ELSE b

None == [kind |-> "none"]

\* The rewrite table handed to the constructor: 0x100 -> 0x200.
rewrite_rules == (256 :> 512)

\* Frames the buses can deliver: one with a rule, one without.
Frames ==
    { [arbitration_id |-> 256, data |-> <<1, 2, 3>>, dlc |-> 3, is_extended_id |-> FALSE],
      [arbitration_id |-> 768, data |-> <<9>>,       dlc |-> 1, is_extended_id |-> TRUE] }

\* The characters of the exception texts and of the patterns the code looks
\* for in them.
Chars(text) ==
    (("bus off" :> <<"b", "u", "s", " ", "o", "f", "f">>) @@
    ("CAN BUS OFF" :> <<"C", "A", "N", " ", "B", "U", "S", " ", "O", "F", "F">>) @@
    ("bus-off" :> <<"b", "u", "s", "-", "o", "f", "f">>) @@
    ("plain" :> <<"p", "l", "a", "i", "n">>) @@
    ("overflow" :> <<"o", "v", "e", "r", "f", "l", "o", "w">>) @@
    ("Tx Buffer full" :> <<"T", "x", " ", "B", "u", "f", "f", "e", "r", " ", "f", "u", "l", "l">>) @@
    ("Transmit buffer" :> <<"T", "r", "a", "n", "s", "m", "i", "t", " ", "b", "u", "f", "f", "e", "r">>) @@
    ("err -13" :> <<"e", "r", "r", " ", "-", "1", "3">>) @@
    ("open" :> <<"o", "p", "e", "n">>) @@
    ("tx buffer" :> <<"t", "x", " ", "b", "u", "f", "f", "e", "r">>) @@
    ("transmit buffer" :> <<"t", "r", "a", "n", "s", "m", "i", "t", " ", "b", "u", "f", "f", "e", "r">>) @@
    ("-13" :> <<"-", "1", "3">>))[text]

UpperCase == <<"A", "B", "C", "F", "N", "O", "S", "T", "U", "X">>
LowerCase == <<"a", "b", "c", "f", "n", "o", "s", "t", "u", "x">>

\* str.lower()
LowerChar(c) ==
    IF \E i \in 1..Len(UpperCase) : UpperCase[i] = c
    THEN LowerCase[CHOOSE i \in 1..Len(UpperCase) : UpperCase[i] = c]
    ELSE c
Lower(chars) == [k \in 1..Len(chars) |-> LowerChar(chars[k])]

\* "sub in text"
Contains(chars, sub) ==
    \E i \in 0..(Len(chars) - Len(sub)) : SubSeq(chars, i + 1, i + Len(sub)) = sub

\* Exceptions: the class and the text str(e).
CanError(text)  == [kind |-> "exc", type |-> "CanError", text |-> text]
Exception(type, text) == [kind |-> "exc", type |-> type, text |-> text]
\* what recv raises: for the classes the code names the text does not
\* matter, for any other class it decides
RecvErrors ==
    { Exception("CanError", x) : x \in {"bus off", "plain"} }
    \cup { Exception("AttributeError", "plain") }
    \cup { Exception("Other", x) :
             x \in {"bus off", "CAN BUS OFF", "bus-off", "plain"} }
\* what send raises: for can.CanError the text decides
SendErrors ==
    { Exception("CanError", x) :
        x \in {"overflow", "Tx Buffer full", "Transmit buffer", "err -13",
               "plain"} }
    \cup { Exception("Other", x) : x \in {"overflow", "plain"} }
OpenErrors == { [kind |-> "exc", type |-> "CanError", text |-> "open"] }

\* Outcome of one can.interface.Bus(...) construction in _open_buses:
\* "te_*" is a TypeError on the first call followed by the fallback call.
CtorOutcomes == {"ok", "te_ok", "te_fail", "fail"}
CtorOk(o) == o \in {"ok", "te_ok"}

\* now - _last_tx_time, as read by the min-gap check
Elapsed == {0, 20, 50}

Signals == {"frame_received", "frame_retransmitted", "error_occurred",
            "recovery_started", "recovery_succeeded", "recovery_failed",
            "finished"}

Emit(s, names) == [n \in Signals |-> IF n \in names THEN s[n] + 1 ELSE s[n]]

\* error_occurred texts: the two drop messages, and "Error in CAN worker: {e}"
DropRewritten ==
    [fatal |-> FALSE, text |-> "TX buffer overflow: dropped a rewritten frame after retries"]
DropPlain ==
    [fatal |-> FALSE, text |-> "TX buffer overflow: dropped a frame after retries"]
WorkerError(e) == [fatal |-> TRUE, text |-> e.text]
NoError == [fatal |-> FALSE, text |-> "none"]

----------------------------------------------------------------------------
\* CANWorker.__init__: clamping of the constructor arguments
ClampSendRetries(n) == Max(MinSendAttempts, n)
ClampDuration(d) == Max(0, d)

\* Constructor arguments tried: recovery options with plain send options,
\* and send options with plain recovery options.
RecoveryConfigs ==
    { [rb |-> TRUE, mr |-> m, rd |-> 500, msr |-> 2, d |-> 10, gap |-> 0,
        cool |-> 50] : m \in (-1)..MaxRetries }
    \cup { [rb |-> TRUE, mr |-> 1, rd |-> -500, msr |-> -1, d |-> -10,
             gap |-> -50, cool |-> -50] }
    \cup { [rb |-> FALSE, mr |-> 1, rd |-> 500, msr |-> 2, d |-> 10, gap |-> 0,
             cool |-> 50] }
SendConfigs ==
    { [rb |-> TRUE, mr |-> 1, rd |-> 500, msr |-> k, d |-> d, gap |-> g,
        cool |-> c] :
        k \in 0..MaxSendRetries, d \in {-10, 10, 150, 500}, g \in {0, 50},
        c \in {-50, 0, 50} }

\* the defaults of the constructor's keyword arguments
DefaultConfig ==
    [rb |-> TRUE, mr |-> 3, rd |-> 500, msr |-> 10, d |-> 10, gap |-> 0,
     cool |-> 50]

\* Arguments of CANManager.set_throttle_options tried: negative and zero
ThrottleOptions ==
    { [msr |-> -1, d |-> -10, gap |-> -50, cool |-> -50],
      [msr |-> 0, d |-> 0, gap |-> 0, cool |-> 0] }

\* CANManager.set_throttle_options: the options it stores
set_throttle_options(o) ==
    [msr |-> Max(MinSendAttempts, o.msr), d |-> Max(0, o.d),
     gap |-> Max(0, o.gap), cool |-> Max(0, o.cool)]

\* the constructor call of CANManager.start_retransmission: the stored
\* throttle options, and the defaults for the recovery options
ManagerConfig(opts) ==
    [rb |-> DefaultConfig.rb, mr |-> DefaultConfig.mr, rd |-> DefaultConfig.rd,
     msr |-> opts.msr, d |-> opts.d, gap |-> opts.gap, cool |-> opts.cool]

\* the relay tests: one recovery episode allowed, or recovery disabled
RelayConfigs ==
    { [rb |-> b, mr |-> 1, rd |-> 500, msr |-> 2, d |-> 10, gap |-> 0,
        cool |-> 50] : b \in BOOLEAN }

\* the fields the constructor sets from its arguments c
Construct(c) ==
    /\ is_running = TRUE
    /\ input_bus = "none"
    /\ output_bus = "none"
    /\ busoff_streak = 0
    /\ last_tx_time = 0
    /\ last_open_error = None
    /\ retry_on_busoff = c.rb
    /\ max_retries = c.mr
    /\ retry_delay = c.rd
    /\ max_send_retries = ClampSendRetries(c.msr)
    /\ send_retry_initial_delay = ClampDuration(c.d)
    /\ tx_min_gap = ClampDuration(c.gap)
    /\ tx_overflow_cooldown = ClampDuration(c.cool)

\* nothing polled, sent or emitted yet
Fresh ==
    /\ frames_left = MaxFrames
    /\ rx = None
    /\ tx = None
    /\ attempt = 0
    /\ delay = 0
    /\ sleeps = <<>>
    /\ send_result = "none"
    /\ send_err = None
    /\ recv_err = None
    /\ rec_i = 0
    /\ rec_log = <<>>
    /\ episodes = 0
    /\ exc = None
    /\ sig = [n \in Signals |-> 0]
    /\ last_error = NoError
    /\ io_called = FALSE
    /\ reopened = FALSE
    /\ all_recv_busoff = TRUE
    /\ gap_elapsed = 0
    /\ unshut_lost = {}

Buses == {"input", "output"}

\* The listeners the tests attach to the two virtual buses: the frames each
\* bus handed to the worker (with a mark once run() reported the frame as
\* dropped) and the messages each bus accepted from the worker; whether the
\* opposite bus got a recv call since the bus handed over its last frame,
\* the buses that handed over a frame in the current iteration of the loop,
\* and the recv calls and accepted messages of each bus after stop().
NoListener == None
EmptyLog ==
    [kind |-> "log", taken |-> [b \in Buses |-> <<>>],
     sent |-> [b \in Buses |-> <<>>],
     other_polled |-> [b \in Buses |-> FALSE],
     iter_taken |-> {},
     recv_after_stop |-> [b \in Buses |-> 0],
     sent_after_stop |-> [b \in Buses |-> 0]]

\* FrameLogger.__init__; the log file does not exist yet
FrameLoggerInit ==
    /\ log_file_path = "none"
    /\ log_file = "none"
    /\ csv_writer = FALSE
    /\ is_logging = FALSE
    /\ disk = <<>>
    /\ buf = <<>>
    /\ log_calls = <<>>
    /\ logger_op = None

\* parse_rewrite_rules has not been called
ParserIdle ==
    /\ table_data = <<>>
    /\ parse_result = None

\* MainWindow.__init__: not running, the form's button and mapping group
MainWindowInit ==
    /\ win_is_running = FALSE
    /\ button_text = "Start"
    /\ mapping_enabled = TRUE
    /\ manager_calls = [start |-> 0, stop |-> 0]
    /\ click = None
    /\ message = "none"
    /\ current_row = -1

\* CANManager.__init__
ManagerInit ==
    /\ manager = [thread |-> "none", worker |-> "none", frame_logger |-> "none"]
    /\ orphans = 0
    /\ lost_loggers = 0
    /\ mgr_op = None

\* the other components, constructed and left alone
AppIdle == FrameLoggerInit /\ ParserIdle /\ MainWindowInit /\ ManagerInit

\* the worker after construction, before its thread calls run()
Init ==
    /\ pc = "idle"
    /\ \E c \in RecoveryConfigs : Construct(c)
    /\ Fresh
    /\ bus_log = NoListener
    /\ AppIdle

----------------------------------------------------------------------------
\* Helpers of run()

\* variant: the shutdown call is left out
ShutdownIfHeld_Skipped(bus) == bus

\* bus.shutdown() on a held instance ("if self.input_bus: ...shutdown()")
ShutdownIfHeld(bus) == IF bus = "none" THEN "none" ELSE "shut"

\* "with contextlib.suppress(Exception): ...shutdown()": the call is made
\* and, when it raises, the exception is dropped
ShutdownSuppressed(bus, raises) == ShutdownIfHeld(bus)

\* a recv or send on a held instance
Use(bus) == IF bus = "none" THEN "none" ELSE "open"

\* variant: the text is compared as it is
LooksBusOff_CaseSensitive(e) ==
    \/ Contains(Chars(e.text), Chars("bus off"))
    \/ e.type \in {"CanError", "AttributeError"}

\* looks_bus_off, run() lines 121-124 and 160-163
LooksBusOff(e) ==
    \/ Contains(Lower(Chars(e.text)), Chars("bus off"))
    \/ e.type \in {"CanError", "AttributeError"}

\* variant: the retry_on_busoff option is not consulted
Recoverable_FlagIgnored(e) == LooksBusOff(e)

\* "if self._retry_on_busoff and looks_bus_off"
Recoverable(e) == retry_on_busoff /\ LooksBusOff(e)

\* variant: the budget test is off by one
BudgetExhausted_OffByOne(streak, budget) == streak > Max(0, budget)

\* "if self._busoff_streak >= max(0, self._max_retries)"
BudgetExhausted(streak, budget) == streak >= Max(0, budget)

\* variant: the loop does not test the flag
LoopCondition_Forever == TRUE

\* variant: the loop goes on while the buses have frames
LoopCondition_Draining == is_running \/ frames_left > 0

\* "while self._is_running"
LoopCondition == is_running

\* Input -> Output, rule found: can.Message(arbitration_id=new_id, ...)
RewrittenMsg(m, new_id) ==
    [arbitration_id |-> new_id, data |-> m.data, dlc |-> m.dlc,
     is_extended_id |-> m.is_extended_id]

\* variant: the extended-ID flag is not copied
PassthroughMsg_NoFlag(m) ==
    [arbitration_id |-> m.arbitration_id, data |-> m.data, dlc |-> m.dlc,
     is_extended_id |-> FALSE]

\* no rule, or Output -> Input: can.Message(arbitration_id=msg.arbitration_id, ...)
PassthroughMsg(m) ==
    [arbitration_id |-> m.arbitration_id, data |-> m.data, dlc |-> m.dlc,
     is_extended_id |-> m.is_extended_id]

\* "new_id = self.rewrite_rules.get(...)" is consulted on the Input poll only
HasRule(src, m) == src = "input" /\ m.arbitration_id \in DOMAIN rewrite_rules

\* the message run() builds for a frame taken from bus src
RelayedMsg(src, m) ==
    IF HasRule(src, m)
    THEN RewrittenMsg(m, rewrite_rules[m.arbitration_id])
    ELSE PassthroughMsg(m)

Opposite(bus) == IF bus = "input" THEN "output" ELSE "input"

\* the channel argument of frame_received.emit: 1 in the Input poll, 0 in the
\* Output poll
RxChannel(src) == IF src = "input" THEN 1 ELSE 0

\* variant: the event carries the channel the frame came from
TxChannel_Source(dest) == IF dest = "output" THEN 1 ELSE 0

\* the channel argument of frame_retransmitted.emit: 0 after the send to the
\* Output bus, 1 after the send to the Input bus
TxChannel(dest) == IF dest = "output" THEN 0 ELSE 1

\* what the listeners record: recv was called on bus b
LogRecv(log, b, stopped) ==
    IF log.kind = "none" THEN log
    ELSE [log EXCEPT !.other_polled[Opposite(b)] = TRUE,
                     !.recv_after_stop[b] = IF stopped THEN @ + 1 ELSE @]

\* that recv call handed frame m to the worker
LogTaken(log, b, m) ==
    IF log.kind = "none" THEN log
    ELSE [log EXCEPT !.taken[b] = Append(@, [msg |-> m, dropped |-> FALSE]),
                     !.other_polled[b] = FALSE,
                     !.iter_taken = @ \cup {b}]

\* bus b accepted message m
LogSent(log, b, m, stopped) ==
    IF log.kind = "none" THEN log
    ELSE [log EXCEPT !.sent[b] = Append(@, m),
                     !.sent_after_stop[b] = IF stopped THEN @ + 1 ELSE @]

\* the loop starts its next iteration
LogIteration(log) ==
    IF log.kind = "none" THEN log
    ELSE [log EXCEPT !.iter_taken = {}]

\* run() reported the last frame taken from bus b as dropped
LogDropped(log, b) ==
    IF log.kind = "none" THEN log
    ELSE [log EXCEPT !.taken[b] = [@ EXCEPT ![Len(@)].dropped = TRUE]]

\* variant: the message is handed to the send again
AfterSend_Again(dest) == "send"

\* variant: the Output poll is skipped after a relayed Input frame
AfterSend_SkipOutput(dest) == "loop"

\* where run() goes on after a send: the Output poll, or the loop test
AfterSend(dest) == IF dest = "output" THEN "poll_out" ELSE "loop"

\* is_overflow, _send_with_retry_on lines 307-313
IsOverflow(e) ==
    LET text == Lower(Chars(e.text))
    IN  \/ Contains(text, Chars("overflow"))
        \/ Contains(text, Chars("tx buffer"))
        \/ Contains(text, Chars("transmit buffer"))
        \/ Contains(text, Chars("-13"))

\* variant: any CanError is retried
CanRetry_AnyError(is_overflow, att, attempts, running) ==
    att < attempts /\ running

\* variant: the flag is not consulted
CanRetry_IgnoreStop(is_overflow, att, attempts, running) ==
    is_overflow /\ att < attempts

\* variant: one attempt too many
CanRetry_OneMore(is_overflow, att, attempts, running) ==
    is_overflow /\ att <= attempts /\ running

\* "if is_overflow and attempt < attempts and self._is_running"
CanRetry(is_overflow, att, attempts, running) ==
    is_overflow /\ att < attempts /\ running

\* variant: the send does not wait for the gap
GapSleeps_NoWait(elapsed) == <<>>

\* variant: the backoff is not clamped
NextDelay_Unclamped(d) == d * 2

\* "delay = min(delay * 2.0, 0.2)"
NextDelay(d) == Min(d * 2, BackoffCap)

\* variant: only can.CanError is caught
SendErrorCaught_CanErrorOnly(e) == e.type = "CanError"

\* the except clauses of _send_with_retry_on: can.CanError, then Exception
SendErrorCaught(e) == e.type = "CanError" \/ e.type \in {"AttributeError", "Other"}

\* "self._last_tx_time = time.time()" after an accepted send: a new instant
SendTime(t) == t + 1

\* variant: the wait does not ask for an earlier send
GapChecked_NoPrior == tx_min_gap > 0

\* "if self._tx_min_gap > 0 and self._last_tx_time > 0": the clock is read
GapChecked == tx_min_gap > 0 /\ last_tx_time > 0

\* the min-gap wait at the head of _send_with_retry_on, lines 292-297
GapSleeps(elapsed) ==
    IF GapChecked /\ tx_min_gap - elapsed > 0
    THEN <<[kind |-> "gap", dur |-> tx_min_gap - elapsed]>>
    ELSE <<>>

\* variant: the streak is not counted up
NextStreak_Same(streak) == streak

\* "self._busoff_streak += 1"
NextStreak(streak) == streak + 1

\* the except clause of a poll, lines 119-136 and 159-175; ib and ob are the
\* bus states when the exception arrives
HandleRecvError(e, ib, ob) ==
    IF Recoverable(e)
    THEN IF BudgetExhausted(busoff_streak, max_retries)
         THEN /\ sig' = Emit(sig, {"recovery_failed"})
              /\ exc' = CanError("bus off")
              /\ pc' = "except"
              /\ input_bus' = ib
              /\ output_bus' = ob
              /\ UNCHANGED <<busoff_streak, episodes, rec_i, rec_log>>
         ELSE \* enters _attempt_recovery: both buses are shut down defensively
              /\ busoff_streak' = NextStreak(busoff_streak)
              /\ episodes' = episodes + 1
              /\ sig' = Emit(sig, {"recovery_started"})
              /\ \E raises_in \in BOOLEAN, raises_out \in BOOLEAN :
                    /\ input_bus' = ShutdownSuppressed(ib, raises_in)
                    /\ output_bus' = ShutdownSuppressed(ob, raises_out)
              /\ rec_i' = 0
              /\ rec_log' = <<>>
              /\ pc' = "recover"
              /\ UNCHANGED exc
    ELSE /\ exc' = e
         /\ pc' = "except"
         /\ input_bus' = ib
         /\ output_bus' = ob
         /\ UNCHANGED <<sig, busoff_streak, episodes, rec_i, rec_log>>

\* variant: a dropped frame is not reported
SendReturn_Silent(ok) ==
    /\ send_result' = IF ok THEN "sent" ELSE "dropped"
    /\ sig' = IF ok THEN Emit(sig, {"frame_retransmitted"}) ELSE sig
    /\ last_error' = last_error
    /\ pc' = AfterSend(tx.bus)

\* the rest of run() after _send_with_retry_on returned ok
SendReturn(ok) ==
    /\ send_result' = IF ok THEN "sent" ELSE "dropped"
    /\ sig' = Emit(sig, {IF ok THEN "frame_retransmitted" ELSE "error_occurred"})
    /\ last_error' = IF ok THEN last_error
                     ELSE IF tx.rewritten THEN DropRewritten ELSE DropPlain
    /\ pc' = AfterSend(tx.bus)

----------------------------------------------------------------------------
\* CANWorker.stop
Stop ==
    /\ is_running' = FALSE
    /\ UNCHANGED <<pc, input_bus, output_bus, busoff_streak, episodes, last_tx_time,
                   last_open_error, cfgvars, frames_left, rx, tx, attempt,
                   delay, sleeps, send_result, send_err, recv_err, rec_i, rec_log, exc,
                   sig, last_error, io_called, reopened, all_recv_busoff,
                   gap_elapsed, bus_log, unshut_lost, appvars>>

\* CANWorker._open_buses: the bus states it leaves, for the outcomes oi and oo
\* of the two constructions (the second is not made when the first fails)
OpenOk(oi, oo) == CtorOk(oi) /\ CtorOk(oo)
OpenedInput(oi) == IF CtorOk(oi) THEN "open" ELSE input_bus
OpenedOutput(oi, oo) == IF OpenOk(oi, oo) THEN "open" ELSE output_bus

\* "self.input_bus = can.interface.Bus(...)" and the same for output_bus: the
\* instance held before is given up as it is; no shutdown() is called on it
OpenLoses(oi, oo) ==
    {b \in {"input"} : CtorOk(oi) /\ input_bus = "open"}
        \cup {b \in {"output"} : OpenOk(oi, oo) /\ output_bus = "open"}

\* run(), lines 71-73: open the buses, raise the open error on failure
RunOpen ==
    /\ pc = "idle"
    /\ \E oi \in CtorOutcomes, oo \in CtorOutcomes, e \in OpenErrors :
        /\ input_bus' = OpenedInput(oi)
        /\ output_bus' = OpenedOutput(oi, oo)
        /\ unshut_lost' = OpenLoses(oi, oo)
        /\ IF OpenOk(oi, oo)
           THEN /\ pc' = "loop"
                /\ UNCHANGED <<last_open_error, exc>>
           ELSE /\ last_open_error' = e
                /\ exc' = e
                /\ pc' = "except"
    /\ UNCHANGED <<is_running, busoff_streak, episodes, last_tx_time, cfgvars,
                   frames_left, rx, tx, attempt, delay, sleeps, send_result,
                   send_err, recv_err, rec_i, rec_log, sig, last_error, io_called,
                   reopened, all_recv_busoff, gap_elapsed, bus_log, appvars>>

\* run(), line 75: the loop test.  The locals of the iteration that ended
\* (the frame, the message, the send's and the recovery's loop state) are dead.
LoopHead ==
    /\ pc = "loop"
    /\ pc' = IF LoopCondition THEN "poll_in" ELSE "finally"
    /\ rx' = None
    /\ tx' = None
    /\ attempt' = 0
    /\ delay' = 0
    /\ sleeps' = <<>>
    /\ send_result' = "none"
    /\ send_err' = None
    /\ recv_err' = None
    /\ rec_i' = 0
    /\ rec_log' = <<>>
    /\ gap_elapsed' = 0
    /\ unshut_lost' = {}
    /\ bus_log' = IF LoopCondition THEN LogIteration(bus_log) ELSE bus_log
    /\ UNCHANGED <<is_running, input_bus, output_bus, busoff_streak, episodes,
                   last_tx_time, last_open_error, cfgvars, frames_left, exc,
                   sig, last_error, io_called, reopened, all_recv_busoff,
                   appvars>>

\* head of _send_with_retry_on, lines 292-300: the min-gap wait and the
\* initial delay; el is now - _last_tx_time
SendHead(el) ==
    /\ gap_elapsed' = IF GapChecked THEN el ELSE 0
    /\ sleeps' = GapSleeps(el)
    /\ delay' = Max(0, send_retry_initial_delay)
    /\ attempt' = 1
    /\ send_result' = "none"
    /\ send_err' = None
    /\ pc' = "send"

\* One poll of run(): recv on bus src, then relay, or handle the exception.
\* Lines 80-136 for src = "input", lines 138-175 for src = "output".
Poll(src) ==
    /\ pc = IF src = "input" THEN "poll_in" ELSE "poll_out"
    /\ io_called' = TRUE
    /\ \E r \in {None} \cup [kind : {"msg"}, msg : Frames] \cup RecvErrors,
          el \in Elapsed :
        LET ib == IF src = "input" THEN Use(input_bus) ELSE input_bus
            ob == IF src = "output" THEN Use(output_bus) ELSE output_bus
        IN
        CASE r.kind = "none" ->
                \* timeout: recv returned None
                /\ pc' = IF src = "input" THEN "poll_out" ELSE "loop"
                /\ input_bus' = ib
                /\ output_bus' = ob
                /\ all_recv_busoff' = FALSE
                /\ bus_log' = LogRecv(bus_log, src, ~is_running)
                /\ UNCHANGED <<busoff_streak, episodes, frames_left, rx, tx,
                               attempt, delay, sleeps, send_result, send_err,
                               recv_err, rec_i, rec_log, exc, sig, gap_elapsed>>
          [] r.kind = "msg" ->
                \* a frame: relay it to the opposite bus
                /\ frames_left > 0
                /\ frames_left' = frames_left - 1
                /\ busoff_streak' = 0
                /\ episodes' = 0
                /\ sig' = Emit(sig, {"frame_received"})
                /\ rx' = [kind |-> "msg", msg |-> r.msg, bus |-> src,
                          channel |-> RxChannel(src)]
                /\ tx' = [kind |-> "msg", msg |-> RelayedMsg(src, r.msg),
                          bus |-> Opposite(src),
                          rewritten |-> HasRule(src, r.msg),
                          channel |-> TxChannel(Opposite(src))]
                /\ bus_log' = LogTaken(LogRecv(bus_log, src, ~is_running), src,
                                       r.msg)
                /\ SendHead(el)
                /\ input_bus' = ib
                /\ output_bus' = ob
                /\ all_recv_busoff' = FALSE
                /\ UNCHANGED <<rec_i, rec_log, exc, recv_err>>
          [] r.kind = "exc" ->
                /\ recv_err' = r
                /\ HandleRecvError(r, ib, ob)
                /\ all_recv_busoff' = (all_recv_busoff /\ LooksBusOff(r))
                /\ bus_log' = LogRecv(bus_log, src, ~is_running)
                /\ UNCHANGED <<frames_left, rx, tx, attempt, delay, sleeps,
                               send_result, send_err, gap_elapsed>>
    /\ UNCHANGED <<is_running, last_tx_time, last_open_error, cfgvars,
                   last_error, reopened, unshut_lost, appvars>>

PollInput == Poll("input")
PollOutput == Poll("output")

\* One iteration of the for loop of _send_with_retry_on, lines 301-323, and
\* what run() does with the result when the function returns.
SendAttempt ==
    /\ pc = "send"
    /\ io_called' = (io_called \/ attempt <= Max(MinSendAttempts, max_send_retries))
    /\ \E o \in {[kind |-> "ok"]} \cup SendErrors :
        LET attempts == Max(MinSendAttempts, max_send_retries)
            ib == IF tx.bus = "input" THEN Use(input_bus) ELSE input_bus
            ob == IF tx.bus = "output" THEN Use(output_bus) ELSE output_bus
        IN
        IF attempt > attempts
        THEN \* the range of the for loop is used up: "return False", line 323
             /\ bus_log' = LogDropped(bus_log, rx.bus)
             /\ SendReturn(FALSE)
             /\ UNCHANGED <<input_bus, output_bus, attempt, delay, sleeps,
                            send_err, last_tx_time, exc, busoff_streak,
                            episodes, rec_i, rec_log>>
        ELSE IF o.kind = "ok"
        THEN /\ last_tx_time' = SendTime(last_tx_time)
             /\ bus_log' = LogSent(bus_log, tx.bus, tx.msg, ~is_running)
             /\ SendReturn(TRUE)
             /\ input_bus' = ib
             /\ output_bus' = ob
             /\ UNCHANGED <<attempt, delay, sleeps, send_err, exc,
                            busoff_streak, episodes, rec_i, rec_log>>
        ELSE IF o.type = "CanError"
        THEN IF CanRetry(IsOverflow(o), attempt, attempts, is_running)
             THEN /\ sleeps' = Append(sleeps, [kind |-> "backoff", dur |-> delay])
                  /\ delay' = NextDelay(delay)
                  /\ attempt' = attempt + 1
                  /\ send_err' = o
                  /\ input_bus' = ib
                  /\ output_bus' = ob
                  /\ UNCHANGED <<pc, send_result, sig, last_error, last_tx_time,
                                 exc, busoff_streak, episodes, rec_i, rec_log, bus_log>>
             ELSE /\ sleeps' = IF IsOverflow(o) /\ tx_overflow_cooldown > 0
                               THEN Append(sleeps, [kind |-> "cooldown",
                                                    dur |-> tx_overflow_cooldown])
                               ELSE sleeps
                  /\ send_err' = o
                  /\ bus_log' = LogDropped(bus_log, rx.bus)
                  /\ SendReturn(FALSE)
                  /\ input_bus' = ib
                  /\ output_bus' = ob
                  /\ UNCHANGED <<attempt, delay, last_tx_time, exc,
                                 busoff_streak, episodes, rec_i, rec_log>>
        ELSE IF SendErrorCaught(o)
        THEN /\ send_err' = o
             /\ bus_log' = LogDropped(bus_log, rx.bus)
             /\ SendReturn(FALSE)
             /\ input_bus' = ib
             /\ output_bus' = ob
             /\ UNCHANGED <<attempt, delay, sleeps, last_tx_time, exc,
                            busoff_streak, episodes, rec_i, rec_log>>
        ELSE \* not caught by the send: it reaches the except clause of the poll
             /\ send_err' = o
             /\ HandleRecvError(o, ib, ob)
             /\ UNCHANGED <<attempt, delay, sleeps, send_result, last_error,
                            last_tx_time, bus_log>>
    /\ UNCHANGED <<is_running, last_open_error, cfgvars, frames_left, rx, tx,
                   reopened, all_recv_busoff, recv_err, gap_elapsed,
                   unshut_lost, appvars>>

\* variant: the delay is slept as it was given
RecoverySleep_Raw(rd) == rd

\* "time.sleep(max(0.0, self._retry_delay))"
RecoverySleep(rd) == Max(0, rd)

\* variant: one reopen attempt too many
MoreAttempts_OneMore(i, n) == i < Max(0, n)

\* "for _ in range(max(0, self._max_retries))": after attempt i + 1 failed,
\* there is another one
MoreAttempts(i, n) == i + 1 < Max(0, n)

\* variant: a cancelled episode reports nothing
RecoveryCheck_Silent ==
    /\ pc = "recover"
    /\ recv_err' = None
    /\ IF ~is_running
       THEN /\ exc' = CanError("bus off")
            /\ pc' = "except"
            /\ UNCHANGED <<sig, rec_log>>
       ELSE /\ rec_log' = Append(rec_log, [kind |-> "sleep",
                                          dur |-> RecoverySleep(retry_delay)])
            /\ pc' = "reopen"
            /\ UNCHANGED <<sig, exc>>
    /\ UNCHANGED <<is_running, input_bus, output_bus, busoff_streak, episodes,
                   last_tx_time, last_open_error, cfgvars, frames_left, rx, tx,
                   attempt, delay, sleeps, send_result, send_err, rec_i,
                   last_error, io_called, reopened, all_recv_busoff,
                   gap_elapsed, bus_log, unshut_lost, appvars>>

\* Head of one iteration of the for loop of _attempt_recovery, lines 231-234:
\* the flag is tested, then the thread sleeps retry_delay.  When the flag is
\* down the function returns False and run() gives up.
RecoveryCheck ==
    /\ pc = "recover"
    /\ recv_err' = None
    /\ IF ~is_running
       THEN \* cancelled: return False, recovery_failed, raise "bus off"
            /\ sig' = Emit(sig, {"recovery_failed"})
            /\ exc' = CanError("bus off")
            /\ pc' = "except"
            /\ UNCHANGED rec_log
       ELSE /\ rec_log' = Append(rec_log, [kind |-> "sleep",
                                          dur |-> RecoverySleep(retry_delay)])
            /\ pc' = "reopen"
            /\ UNCHANGED <<sig, exc>>
    /\ UNCHANGED <<is_running, input_bus, output_bus, busoff_streak, episodes,
                   last_tx_time, last_open_error, cfgvars, frames_left, rx, tx,
                   attempt, delay, sleeps, send_result, send_err, rec_i,
                   last_error, io_called, reopened, all_recv_busoff,
                   gap_elapsed, bus_log, unshut_lost, appvars>>

\* variant: the result of _open_buses is not looked at
Recovered_AnyOpen(opened, usable) == usable

\* "if self._open_buses() and hasattr(self.input_bus, "recv") and
\* hasattr(self.output_bus, "send")"
Recovered(opened, usable) == opened /\ usable

\* Rest of the iteration, lines 235-240: _open_buses and the usability test,
\* and what run() does with the result when the function returns.
RecoveryAttempt ==
    /\ pc = "reopen"
    /\ \E oi \in CtorOutcomes, oo \in CtorOutcomes, usable \in BOOLEAN,
          e \in OpenErrors :
        /\ input_bus' = OpenedInput(oi)
        /\ output_bus' = OpenedOutput(oi, oo)
        /\ unshut_lost' = OpenLoses(oi, oo)
        /\ reopened' = TRUE
        /\ rec_log' = Append(rec_log, [kind |-> "open",
                                       opened |-> OpenOk(oi, oo),
                                       usable |-> Recovered(OpenOk(oi, oo), usable)])
        /\ last_open_error' = IF OpenOk(oi, oo) THEN last_open_error ELSE e
        /\ IF Recovered(OpenOk(oi, oo), usable)
           THEN \* return True: recovery_succeeded, continue
                /\ sig' = Emit(sig, {"recovery_succeeded"})
                /\ pc' = "loop"
                /\ UNCHANGED <<exc, rec_i>>
           ELSE IF MoreAttempts(rec_i, max_retries)
           THEN \* keep trying
                /\ rec_i' = rec_i + 1
                /\ pc' = "recover"
                /\ UNCHANGED <<sig, exc>>
           ELSE \* range exhausted: return False
                /\ rec_i' = rec_i + 1
                /\ sig' = Emit(sig, {"recovery_failed"})
                /\ exc' = CanError("bus off")
                /\ pc' = "except"
    /\ UNCHANGED <<is_running, busoff_streak, episodes, last_tx_time, cfgvars,
                   frames_left, rx, tx, attempt, delay, sleeps, send_result,
                   send_err, recv_err, last_error, io_called,
                   all_recv_busoff, gap_elapsed, bus_log, appvars>>

\* run(), lines 177-178: the outer except clause
HandleException ==
    /\ pc = "except"
    /\ sig' = Emit(sig, {"error_occurred"})
    /\ last_error' = WorkerError(exc)
    /\ recv_err' = None
    /\ pc' = "finally"
    /\ UNCHANGED <<is_running, input_bus, output_bus, busoff_streak, episodes,
                   last_tx_time, last_open_error, cfgvars, frames_left, rx, tx,
                   attempt, delay, sleeps, send_result, send_err, rec_i, rec_log, exc,
                   io_called, reopened, all_recv_busoff, gap_elapsed, bus_log,
                   unshut_lost, appvars>>

\* variant: the cleanup sits inside the loop, which polls on after it
Finally_InsideLoop ==
    /\ pc = "finally"
    /\ input_bus' = ShutdownIfHeld(input_bus)
    /\ output_bus' = ShutdownIfHeld(output_bus)
    /\ sig' = Emit(sig, {"finished"})
    /\ pc' = "poll_in"
    /\ UNCHANGED <<is_running, busoff_streak, episodes, last_tx_time, last_open_error,
                   cfgvars, frames_left, rx, tx, attempt, delay, sleeps,
                   send_result, send_err, recv_err, rec_i, rec_log, exc, last_error,
                   io_called, reopened, all_recv_busoff, gap_elapsed, bus_log,
                   unshut_lost, appvars>>

\* run(), lines 179-184: the finally clause.  A shutdown() that raises leaves
\* the clause at once: the exception escapes run().
Finally ==
    /\ pc = "finally"
    /\ \E raises_in \in BOOLEAN, raises_out \in BOOLEAN :
        /\ input_bus' = ShutdownIfHeld(input_bus)
        /\ IF input_bus # "none" /\ raises_in
           THEN /\ pc' = "raised"
                /\ UNCHANGED <<output_bus, sig>>
           ELSE /\ output_bus' = ShutdownIfHeld(output_bus)
                /\ IF output_bus # "none" /\ raises_out
                   THEN /\ pc' = "raised"
                        /\ UNCHANGED sig
                   ELSE /\ sig' = Emit(sig, {"finished"})
                        /\ pc' = "done"
    /\ UNCHANGED <<is_running, busoff_streak, episodes, last_tx_time, last_open_error,
                   cfgvars, frames_left, rx, tx, attempt, delay, sleeps,
                   send_result, send_err, recv_err, rec_i, rec_log, exc, last_error,
                   io_called, reopened, all_recv_busoff, gap_elapsed, bus_log,
                   unshut_lost, appvars>>

\* A direct call of _send_with_retry_on(bus, msg) on a constructed worker, as
\* the unit tests make it; the call is repeated, once the last one returned,
\* while there are frames left to send.
SendCall ==
    /\ pc \in {"call", "poll_out", "loop"}
    /\ frames_left > 0
    /\ frames_left' = frames_left - 1
    /\ \E m \in Frames, dest \in {"input", "output"}, el \in Elapsed :
        /\ rx' = [kind |-> "msg", msg |-> m, bus |-> Opposite(dest),
                  channel |-> RxChannel(Opposite(dest))]
        /\ tx' = [kind |-> "msg", msg |-> m, bus |-> dest, rewritten |-> FALSE,
                  channel |-> TxChannel(dest)]
        /\ SendHead(el)
    /\ UNCHANGED <<is_running, input_bus, output_bus, busoff_streak, episodes,
                   last_tx_time, last_open_error, cfgvars, recv_err, rec_i, rec_log,
                   exc, sig, last_error, io_called, reopened,
                   all_recv_busoff, bus_log, unshut_lost, appvars>>

\* the steps of the worker thread
Worker == RunOpen \/ LoopHead \/ PollInput \/ PollOutput \/ SendAttempt
            \/ RecoveryCheck \/ RecoveryAttempt \/ HandleException \/ Finally

Next == Stop \/ RunOpen \/ LoopHead \/ PollInput \/ PollOutput \/ SendAttempt
            \/ RecoveryCheck \/ RecoveryAttempt \/ HandleException
            \/ Finally

Spec == Init /\ [][Next]_vars

\* run() on a worker of the relay tests, without listeners
InitLive ==
    /\ pc = "idle"
    /\ \E c \in RelayConfigs : Construct(c)
    /\ Fresh
    /\ bus_log = NoListener
    /\ AppIdle

\* The worker thread keeps taking steps: every recv, send, open, sleep and
\* shutdown call comes back.
SpecLive == InitLive /\ [][Next]_vars /\ WF_vars(Worker)

\* _send_with_retry_on called directly, for all send options, on a worker
\* made by a test or by CANManager.start_retransmission
InitSend ==
    /\ pc = "call"
    /\ \/ \E c \in SendConfigs : Construct(c)
       \/ \E o \in ThrottleOptions :
            Construct(ManagerConfig(set_throttle_options(o)))
    /\ Fresh
    /\ bus_log = NoListener
    /\ AppIdle

NextSend == SendCall \/ SendAttempt \/ Stop

SpecSend == InitSend /\ [][NextSend]_vars

\* run() with listeners attached to the two buses, as the relay tests set
\* them up
InitRelay ==
    /\ pc = "idle"
    /\ \E c \in RelayConfigs : Construct(c)
    /\ Fresh
    /\ bus_log = EmptyLog
    /\ AppIdle

SpecRelay == InitRelay /\ [][Next]_vars

----------------------------------------------------------------------------
\* parse_rewrite_rules (core/utils.py).  A text is a sequence of characters.

\* the texts a cell of the mapping table can hold in the model:
\* "", " ", "1", "A", "a", " 1", "0x1", "G", "1_"
FieldTexts ==
    { <<>>, <<" ">>, <<"1">>, <<"A">>, <<"a">>, <<" ", "1">>,
      <<"0", "x", "1">>, <<"G">>, <<"1", "_">> }

Rows == FieldTexts \X FieldTexts

\* the lists of rows handed to parse_rewrite_rules
Tables == UNION { [1..n -> Rows] : n \in 0..MaxRows }

\* value of the hexadecimal digits the texts use
HexDigit ==
    ("0" :> 0) @@ ("1" :> 1) @@ ("A" :> 10) @@ ("a" :> 10)

\* str.strip()
RECURSIVE StripLeft(_)
StripLeft(t) == IF t # <<>> /\ t[1] = " " THEN StripLeft(Tail(t)) ELSE t

RECURSIVE StripRight(_)
StripRight(t) ==
    IF t # <<>> /\ t[Len(t)] = " "
    THEN StripRight(SubSeq(t, 1, Len(t) - 1))
    ELSE t

Strip(t) == StripRight(StripLeft(t))

\* "not text.strip()"
IsBlank(t) == Strip(t) = <<>>

\* digits of an integer literal: hex digits, single underscores between them
RECURSIVE DigitsOk(_)
DigitsOk(t) ==
    IF t = <<>> THEN FALSE
    ELSE IF t[1] \notin DOMAIN HexDigit THEN FALSE
    ELSE IF Len(t) = 1 THEN TRUE
    ELSE IF t[2] = "_" THEN DigitsOk(SubSeq(t, 3, Len(t)))
    ELSE DigitsOk(Tail(t))

RECURSIVE DigitsValue(_, _)
DigitsValue(t, acc) ==
    IF t = <<>> THEN acc
    ELSE IF t[1] = "_" THEN DigitsValue(Tail(t), acc)
    ELSE DigitsValue(Tail(t), 16 * acc + HexDigit[t[1]])

\* int(text, 16): surrounding whitespace, a sign, a 0x prefix, the digits;
\* ok is FALSE where int raises ValueError
IntBase16(text) ==
    LET u == Strip(text)
        signed == u # <<>> /\ u[1] \in {"+", "-"}
        v == IF signed THEN Tail(u) ELSE u
        prefixed == Len(v) >= 2 /\ v[1] = "0" /\ v[2] \in {"x", "X"}
        w == IF prefixed THEN SubSeq(v, 3, Len(v)) ELSE v
        digits == IF prefixed /\ w # <<>> /\ w[1] = "_" THEN Tail(w) ELSE w
        magnitude == DigitsValue(digits, 0)
    IN  IF DigitsOk(digits)
        THEN [ok |-> TRUE,
              value |-> IF signed /\ u[1] = "-" THEN 0 - magnitude ELSE magnitude]
        ELSE [ok |-> FALSE, value |-> 0]

\* "rules = {}" and "rules[original_id] = rewritten_id"
EmptyRules == [x \in {} |-> 0]
Put(rules, k, v) ==
    [x \in DOMAIN rules \cup {k} |-> IF x = k THEN v ELSE rules[x]]

\* RuleParsingError(f"Invalid ID in row {i + 1}. ...", row=i)
RuleParsingError(i) ==
    [kind |-> "RuleParsingError", row |-> i, message_row |-> i + 1]

\* variant: a row with one blank field is skipped too
SkipRow_EitherBlank(original_text, rewritten_text) ==
    IsBlank(original_text) \/ IsBlank(rewritten_text)

\* "if not original_text.strip() and not rewritten_text.strip(): continue"
SkipRow(original_text, rewritten_text) ==
    IsBlank(original_text) /\ IsBlank(rewritten_text)

\* the for loop of parse_rewrite_rules from the row of index i (from 0) on
RECURSIVE ParseFrom(_, _, _)
ParseFrom(table, i, rules) ==
    IF i >= Len(table) THEN [kind |-> "rules", rules |-> rules]
    ELSE LET original_text == table[i + 1][1]
             rewritten_text == table[i + 1][2]
             original_id == IntBase16(original_text)
             rewritten_id == IntBase16(rewritten_text)
         IN  IF SkipRow(original_text, rewritten_text)
             THEN ParseFrom(table, i + 1, rules)
             ELSE IF ~original_id.ok \/ ~rewritten_id.ok
             THEN RuleParsingError(i)
             ELSE ParseFrom(table, i + 1,
                            Put(rules, original_id.value, rewritten_id.value))

parse_rewrite_rules(table) == ParseFrom(table, 0, EmptyRules)

\* one call of parse_rewrite_rules(table_data)
ParseCall ==
    /\ parse_result = None
    /\ parse_result' = parse_rewrite_rules(table_data)
    /\ UNCHANGED <<table_data, workervars, loggervars, windowvars, managervars>>

\* the constructed worker, left alone
WorkerIdle ==
    /\ pc = "idle"
    /\ Construct(DefaultConfig)
    /\ Fresh
    /\ bus_log = NoListener

InitParse ==
    /\ table_data \in Tables
    /\ parse_result = None
    /\ WorkerIdle
    /\ FrameLoggerInit
    /\ MainWindowInit
    /\ ManagerInit

NextParse == ParseCall

SpecParse == InitParse /\ [][NextParse]_vars

----------------------------------------------------------------------------
\* FrameLogger (core/frame_logger.py).  A row is the sequence of its cells that
\* depend on the call: the channel and the direction.  The file is counted in
\* rows.  The few rows of the model stay in the file object's buffer until
\* the object is closed.

LogPaths == {"none", "good", "bad"}  \* not set, can be opened, open raises OSError

\* the (direction, channel) arguments of log_frame; channel may be left out
LogArgs == { <<"RX">>, <<"RX", 1>>, <<"TX", 0>>, <<"TX", 1>> }

HeaderRow == <<"Channel", "Direction">>

\* "channel: int = 0"
ChannelArg(args) == IF Len(args) = 2 THEN args[2] ELSE 0

\* csv.writer writes the integer as its decimal text
ChannelText == (0 :> "0") @@ (1 :> "1")

\* the row log_frame writes
FrameRow(args) == <<ChannelText[ChannelArg(args)], args[1]>>

\* a flush of the buffered rows b, written from the start of the file d
Overlay(d, b) == b \o SubSeq(d, Len(b) + 1, Len(d))

\* what a reader finds in the file once the buffered rows are written
CsvFile == IF log_file = "open" THEN Overlay(disk, buf) ELSE disk

LoggerCalls == IF logger_op.kind = "none" THEN 0 ELSE logger_op.n

\* a call of the method name
Called(name) ==
    /\ LoggerCalls < MaxLoggerCalls
    /\ logger_op' = [kind |-> "call", name |-> name, n |-> LoggerCalls + 1]

\* FrameLogger.set_log_path
SetLogPath ==
    /\ Called("set_log_path")
    /\ log_file_path' \in LogPaths
    /\ UNCHANGED <<log_file, csv_writer, is_logging, disk, buf, log_calls,
                   workervars, parservars, windowvars, managervars>>

\* FrameLogger.start_logging.  open(path, "w") empties the file; the file
\* object held before is released by the two assignments and is closed then,
\* which writes its buffered rows.
StartLogging ==
    /\ Called("start_logging")
    /\ IF log_file_path = "none"
       THEN UNCHANGED <<log_file, csv_writer, is_logging, disk, buf, log_calls>>
       ELSE IF log_file_path = "bad"
       THEN /\ is_logging' = FALSE
            /\ UNCHANGED <<log_file, csv_writer, disk, buf, log_calls>>
       ELSE /\ disk' = IF log_file = "open" THEN Overlay(<<>>, buf) ELSE <<>>
            /\ log_file' = "open"
            /\ csv_writer' = TRUE
            /\ buf' = <<HeaderRow>>
            /\ is_logging' = TRUE
            /\ log_calls' = <<>>
    /\ UNCHANGED <<log_file_path, workervars, parservars, windowvars,
                   managervars>>

\* FrameLogger.log_frame
LogFrame ==
    /\ Called("log_frame")
    /\ \E args \in LogArgs :
        /\ buf' = IF is_logging /\ csv_writer
                  THEN Append(buf, FrameRow(args)) ELSE buf
        /\ log_calls' = IF is_logging THEN Append(log_calls, args)
                        ELSE log_calls
    /\ UNCHANGED <<log_file_path, log_file, csv_writer, is_logging, disk,
                   workervars, parservars, windowvars, managervars>>

\* FrameLogger.stop_logging
StopLogging ==
    /\ Called("stop_logging")
    /\ IF is_logging /\ log_file = "open"
       THEN /\ disk' = Overlay(disk, buf)
            /\ buf' = <<>>
            /\ log_file' = "none"
            /\ csv_writer' = FALSE
            /\ is_logging' = FALSE
       ELSE UNCHANGED <<log_file, csv_writer, is_logging, disk, buf>>
    /\ UNCHANGED <<log_file_path, log_calls, workervars, parservars,
                   windowvars, managervars>>

InitLogger ==
    /\ FrameLoggerInit
    /\ WorkerIdle
    /\ ParserIdle
    /\ MainWindowInit
    /\ ManagerInit

NextLogger == SetLogPath \/ StartLogging \/ LogFrame \/ StopLogging

SpecLogger == InitLogger /\ [][NextLogger]_vars

----------------------------------------------------------------------------
\* CANManager (core/can_logic.py): start_retransmission and
\* stop_retransmission.  _thread is "none" (None), "running" (the thread
\* executes the worker's run()), "finished" (run() returned and the thread
\* ended) or "deleted" (the deleteLater connected to the thread's finished
\* signal has destroyed the QThread; the attribute still holds its wrapper).
\* _frame_logger is "none", "open" (a FrameLogger that is logging) or "idle"
\* (a FrameLogger whose file could not be opened).

\* a method of the QThread wrapper is called after the QThread was
\* destroyed: PyQt raises RuntimeError
WrapperRaises(m) == m.thread = "deleted"

\* How "self._thread.wait(2000)" and "self._thread.terminate()" end for the
\* thread of m: the thread ended within the wait ("ended"), the wait timed
\* out and terminate() ended the thread at once ("terminated"), or the wait
\* timed out and the thread goes on after terminate() returned ("running").
WaitOutcomes(m) ==
    IF m.thread = "running" THEN {"ended", "terminated", "running"}
    ELSE {"ended"}

\* the thread still executes run() when stop_retransmission lets go of it
StillRunning(m, waited) == m.thread = "running" /\ waited = "running"

\* CANManager.stop_retransmission on the manager fields m: whether it raised,
\* the fields it leaves, and the threads it gave up while they run
stop_retransmission(m, waited) ==
    IF m.thread # "none" /\ WrapperRaises(m)
    THEN \* "self._thread.quit()" raises
         [raised |-> TRUE, manager |-> m, orphaned |-> 0]
    ELSE [raised |-> FALSE,
          manager |-> [thread |-> "none",
                       worker |-> IF m.thread # "none" THEN "none" ELSE m.worker,
                       frame_logger |-> "none"],
          orphaned |-> IF StillRunning(m, waited) THEN 1 ELSE 0]

\* "self._frame_logger = FrameLogger()" over a logger that is logging: no
\* stop_logging call is made on the logger held before
Replaced(logger, log_path) ==
    IF log_path # "none" /\ logger = "open" THEN 1 ELSE 0

\* the FrameLogger start_retransmission holds after lines 535-538
StartedLogger(logger, log_path) ==
    IF log_path = "none" THEN logger
    ELSE IF log_path = "good" THEN "open"
    ELSE "idle"

\* CANManager.start_retransmission(..., log_file) on the manager fields m
start_retransmission(m, log_path, waited) ==
    IF m.thread # "none" /\ WrapperRaises(m)
    THEN \* "self._thread.isRunning()" raises
         [raised |-> TRUE, stopped |-> FALSE, manager |-> m, orphaned |-> 0,
          lost |-> 0]
    ELSE LET stopped == m.thread = "running"
             s == IF stopped THEN stop_retransmission(m, waited)
                  ELSE [raised |-> FALSE, manager |-> m, orphaned |-> 0]
             held == s.manager.frame_logger
         IN  [raised |-> FALSE,
              stopped |-> stopped,
              manager |-> [thread |-> "running", worker |-> "set",
                           frame_logger |-> StartedLogger(held, log_path)],
              orphaned |-> s.orphaned,
              lost |-> Replaced(held, log_path)]

ManagerCalls == IF mgr_op.kind = "none" THEN 0 ELSE mgr_op.n

\* a call of start_retransmission
StartRetransmission ==
    /\ ManagerCalls < MaxManagerCalls
    /\ \E log_path \in LogPaths, waited \in WaitOutcomes(manager) :
        LET r == start_retransmission(manager, log_path, waited)
        IN  /\ manager' = r.manager
            /\ orphans' = orphans + r.orphaned
            /\ lost_loggers' = lost_loggers + r.lost
            /\ mgr_op' = [kind |-> "call", name |-> "start_retransmission",
                          n |-> ManagerCalls + 1, raised |-> r.raised,
                          stopped |-> r.stopped, log_file |-> log_path]
    /\ UNCHANGED <<workervars, loggervars, parservars, windowvars>>

\* a call of stop_retransmission
StopRetransmission ==
    /\ ManagerCalls < MaxManagerCalls
    /\ \E waited \in WaitOutcomes(manager) :
        LET r == stop_retransmission(manager, waited)
        IN  /\ manager' = r.manager
            /\ orphans' = orphans + r.orphaned
            /\ mgr_op' = [kind |-> "call", name |-> "stop_retransmission",
                          n |-> ManagerCalls + 1, raised |-> r.raised,
                          stopped |-> ~r.raised, log_file |-> "none"]
    /\ UNCHANGED <<lost_loggers, workervars, loggervars, parservars,
                   windowvars>>

\* The worker leaves run() on its own, after a fatal error: finished is
\* emitted, the thread is asked to quit (line 579) and ends.
WorkerFinished ==
    /\ manager.thread = "running"
    /\ manager' = [manager EXCEPT !.thread = "finished"]
    /\ UNCHANGED <<orphans, lost_loggers, mgr_op, workervars, loggervars,
                   parservars, windowvars>>

\* "self._thread.finished.connect(self._thread.deleteLater)", line 581: the
\* event loop destroys the QThread
DeleteLater ==
    /\ manager.thread = "finished"
    /\ manager' = [manager EXCEPT !.thread = "deleted"]
    /\ UNCHANGED <<orphans, lost_loggers, mgr_op, workervars, loggervars,
                   parservars, windowvars>>

\* a thread that stop_retransmission gave up comes to its end
OrphanFinished ==
    /\ orphans > 0
    /\ orphans' = orphans - 1
    /\ UNCHANGED <<manager, lost_loggers, mgr_op, workervars, loggervars,
                   parservars, windowvars>>

InitManager ==
    /\ ManagerInit
    /\ WorkerIdle
    /\ FrameLoggerInit
    /\ ParserIdle
    /\ MainWindowInit

NextManager == StartRetransmission \/ StopRetransmission \/ WorkerFinished
                \/ DeleteLater \/ OrphanFinished

SpecManager == InitManager /\ [][NextManager]_vars

----------------------------------------------------------------------------
\* MainWindow (core/gui.py): the Start/Stop button and the error slot

\* self._channels, by the "channel" value of each entry
ChannelLists == { <<>>, <<"vcan0", "vcan1">>, <<"vcan0", "vcan0">> }

\* currentIndex() of the two channel combos
ComboIndices == 0..2

\* bitrate_combo.currentText(), and current_settings["connection"]["bitrate"]
BitrateTexts == {"500", "", "abc"}
SettingsBitrate == "500"

\* int(text) returns for the decimal text and raises ValueError otherwise
IntOk(text) == text = "500"

\* the contents of the mapping table: empty, a rule, a rule under a blank
\* row, a row without its new ID, a non-hex ID under a blank row
MappingTables ==
    { <<>>,
      << <<<<"1">>, <<"A">>>> >>,
      << <<<<>>, <<" ">>>>, <<<<"1">>, <<"A">>>> >>,
      << <<<<"1">>, <<>>>> >>,
      << <<<<>>, <<>>>>, <<<<"G">>, <<"1">>>> >> }

\* "if orig.strip() or rew.strip()"
NonBlankRow(r) == ~IsBlank(r[1]) \/ ~IsBlank(r[2])

\* MainWindow._get_rewrite_rules: the rules, or None after a RuleParsingError
GetRewriteRules(table) ==
    LET r == parse_rewrite_rules(SelectSeq(table, NonBlankRow))
    IN  IF r.kind = "rules" THEN r ELSE None

\* variant: the combo indices are compared
SameChannel_ByIndex(channels, i, o) == i = o

\* "if input_data["channel"] == output_data["channel"]"
SameChannel(channels, i, o) == channels[i + 1] = channels[o + 1]

\* "int(bitrate_kbps or self.current_settings[...])" does not raise
BitrateOk(text) == IntOk(IF text # "" THEN text ELSE SettingsBitrate)

\* "self.mapping_table.selectRow(e.row)": e.row counts the rows handed to
\* parse_rewrite_rules
SelectedRow(table) == parse_rewrite_rules(SelectSeq(table, NonBlankRow)).row

\* the early returns of the start branch of _on_start_stop_clicked that show
\* a "Configuration Error"
ConfigRefused(channels, i, o, bitrate_kbps) ==
    \/ channels = <<>>
    \/ i >= Len(channels) \/ o >= Len(channels)
    \/ SameChannel(channels, i, o)
    \/ ~BitrateOk(bitrate_kbps)

\* the early returns of the start branch of _on_start_stop_clicked
StartRefused(channels, i, o, bitrate_kbps, table) ==
    \/ ConfigRefused(channels, i, o, bitrate_kbps)
    \/ GetRewriteRules(table) = None

Clicks == IF click.kind = "none" THEN 0 ELSE click.n

\* MainWindow._on_start_stop_clicked.  The calls it makes on can_manager are
\* part of it; an exception of such a call leaves the slot at once.
OnStartStopClicked ==
    /\ Clicks < MaxClicks
    /\ \E channels \in ChannelLists, i \in ComboIndices, o \in ComboIndices,
          bitrate_kbps \in BitrateTexts, table \in MappingTables :
        \E log_path \in IF win_is_running
                            \/ StartRefused(channels, i, o, bitrate_kbps, table)
                         THEN {"none"} ELSE LogPaths,
           waited \in WaitOutcomes(manager) :
        LET stop == stop_retransmission(manager, waited)
            start == start_retransmission(manager, log_path, waited)
        IN
        /\ click' = [kind |-> "click", slot |-> "start_stop", n |-> Clicks + 1,
                     channels |-> channels, input_index |-> i,
                     output_index |-> o, bitrate_kbps |-> bitrate_kbps,
                     table |-> table]
        /\ IF win_is_running
           THEN /\ manager_calls' = [manager_calls EXCEPT !.stop = @ + 1]
                /\ manager' = stop.manager
                /\ orphans' = orphans + stop.orphaned
                /\ IF stop.raised
                   THEN UNCHANGED <<button_text, mapping_enabled, win_is_running>>
                   ELSE /\ button_text' = "Start"
                        /\ mapping_enabled' = TRUE
                        /\ win_is_running' = FALSE
                /\ UNCHANGED <<message, current_row, lost_loggers>>
           ELSE IF StartRefused(channels, i, o, bitrate_kbps, table)
           THEN /\ IF ConfigRefused(channels, i, o, bitrate_kbps)
                   THEN /\ message' = "Configuration Error"
                        /\ UNCHANGED current_row
                   ELSE /\ message' = "Mapping Error"
                        /\ current_row' = SelectedRow(table)
                /\ UNCHANGED <<manager_calls, button_text, mapping_enabled,
                               win_is_running, manager, orphans, lost_loggers>>
           ELSE /\ manager_calls' = [manager_calls EXCEPT !.start = @ + 1]
                /\ manager' = start.manager
                /\ orphans' = orphans + start.orphaned
                /\ lost_loggers' = lost_loggers + start.lost
                /\ IF start.raised
                   THEN UNCHANGED <<button_text, mapping_enabled, win_is_running>>
                   ELSE /\ button_text' = "Stop"
                        /\ mapping_enabled' = FALSE
                        /\ win_is_running' = TRUE
                /\ UNCHANGED <<message, current_row>>
    /\ UNCHANGED <<mgr_op, workervars, loggervars, parservars>>

\* An error_occurred event of the worker, forwarded by the manager, and
\* MainWindow._handle_error, its slot.  fatal: the event is the "Error in CAN
\* worker" of run()'s except clause, emitted when the loop has been left;
\* otherwise it reports a dropped frame and the loop goes on.
HandleError ==
    /\ Clicks < MaxClicks
    /\ \E fatal \in BOOLEAN :
        /\ click' = [kind |-> "click", slot |-> "error", n |-> Clicks + 1,
                     fatal |-> fatal]
        /\ manager' = IF fatal /\ manager.thread = "running"
                      THEN [manager EXCEPT !.thread = "finished"]
                      ELSE manager
    /\ message' = "Error"
    /\ UNCHANGED current_row
    /\ IF win_is_running
       THEN /\ button_text' = "Start"
            /\ mapping_enabled' = TRUE
            /\ win_is_running' = FALSE
       ELSE UNCHANGED <<button_text, mapping_enabled, win_is_running>>
    /\ UNCHANGED <<manager_calls, orphans, lost_loggers, mgr_op, workervars,
                   loggervars, parservars>>

InitWindow ==
    /\ MainWindowInit
    /\ ManagerInit
    /\ WorkerIdle
    /\ FrameLoggerInit
    /\ ParserIdle

NextWindow == OnStartStopClicked \/ HandleError \/ DeleteLater
                \/ OrphanFinished

SpecWindow == InitWindow /\ [][NextWindow]_vars

----------------------------------------------------------------------------
\* Properties

Terminated == pc \in {"done", "raised"}

\* the message that relays frame m unchanged
SameFrame(a, m) ==
    /\ a.arbitration_id = m.arbitration_id
    /\ a.data = m.data
    /\ a.dlc = m.dlc
    /\ a.is_extended_id = m.is_extended_id

\* C1: a frame whose ID has a rule R, taken from either bus, is sent to the
\* opposite bus with ID R and the same data, dlc and extended-ID flag.
C1_RewriteInBothDirections ==
    (tx.kind = "msg" /\ rx.msg.arbitration_id \in DOMAIN rewrite_rules)
        => /\ tx.bus = Opposite(rx.bus)
           /\ tx.msg.arbitration_id = rewrite_rules[rx.msg.arbitration_id]
           /\ tx.msg.data = rx.msg.data
           /\ tx.msg.dlc = rx.msg.dlc
           /\ tx.msg.is_extended_id = rx.msg.is_extended_id

\* C2: a frame whose ID has no rule, taken from either bus, is sent to the
\* opposite bus with the same ID, data, dlc and extended-ID flag.
C2_Passthrough ==
    (tx.kind = "msg" /\ rx.msg.arbitration_id \notin DOMAIN rewrite_rules)
        => /\ tx.bus = Opposite(rx.bus)
           /\ SameFrame(tx.msg, rx.msg)

C2_Witness ==
    /\ send_result = "sent"
    /\ rx.bus = "output"
    /\ rx.msg.arbitration_id \notin DOMAIN rewrite_rules
    /\ rx.msg.is_extended_id

\* C3: when run() has returned, every bus instance the worker holds has had
\* shutdown() called after its last recv or send.
C3_ShutDownOnReturn ==
    pc = "done" => /\ input_bus \in {"none", "shut"}
                   /\ output_bus \in {"none", "shut"}

C3_Witness ==
    /\ pc = "done"
    /\ io_called
    /\ input_bus = "shut"
    /\ output_bus = "shut"
    /\ exc.kind = "exc"

\* C4: with retry_on_busoff, when every recv raises a bus-off-classified error
\* and every recovery episode succeeds, the run starts max(0, max_retries)
\* episodes, never one more, and ends with the "bus off" error.
C4_RecoveryBudget ==
    (retry_on_busoff /\ all_recv_busoff)
        => /\ sig["recovery_started"] <= Max(0, max_retries)
           /\ (/\ pc \in {"finally", "done", "raised"}
               /\ io_called
               /\ is_running
               /\ sig["recovery_succeeded"] = sig["recovery_started"])
                => /\ sig["recovery_started"] = Max(0, max_retries)
                   /\ sig["recovery_failed"] = 1
                   /\ last_error = WorkerError(CanError("bus off"))

C4_Witness ==
    /\ pc = "done"
    /\ retry_on_busoff
    /\ all_recv_busoff
    /\ is_running
    /\ max_retries = 2
    /\ sig["recovery_succeeded"] = 2
    /\ sig["recovery_started"] = 2

\* C5: a send that fails does not end run(): one drop error_occurred is
\* emitted and the worker goes on to the next poll of the loop.
C5_FailedSendNotFatal ==
    [][pc = "send"
        => /\ pc' \in {"send", AfterSend(tx.bus)}
           /\ exc' = exc
           /\ (pc' # "send" /\ send_result' # "sent")
                => /\ send_result' = "dropped"
                   /\ sig' = Emit(sig, {"error_occurred"})
                   /\ last_error' \in {DropRewritten, DropPlain}]_vars

C5_Witness ==
    /\ pc = "poll_out"
    /\ send_result = "dropped"
    /\ send_err.type = "Other"
    /\ sig["error_occurred"] = 1

\* overflow-classified CanError
OverflowCanError(e) == e.kind = "exc" /\ e.type = "CanError" /\ e.text = "overflow"

RECURSIVE Pow2(_)
Pow2(n) == IF n = 0 THEN 1 ELSE 2 * Pow2(n - 1)

\* C6 as stated: with tx_min_gap = 0, a send that fails with overflow N times,
\* N < max_send_retries, and then succeeds returns True after N + 1 attempts
\* and N sleeps d, 2d, 4d, ..., every one capped at 0.2 s.
C6_BackoffEverySleepCapped ==
    /\ (tx_min_gap = 0 /\ send_result = "dropped" /\ OverflowCanError(send_err))
        => attempt = max_send_retries
    /\ (tx_min_gap = 0 /\ send_result = "sent")
        => /\ Len(sleeps) = attempt - 1
           /\ \A i \in 1..Len(sleeps) :
                sleeps[i] = [kind |-> "backoff",
                             dur |-> Min(Pow2(i - 1) * send_retry_initial_delay,
                                         BackoffCap)]

\* C6: with tx_min_gap = 0 and the worker not stopped, a send that fails with
\* overflow N times, N < max_send_retries, and then succeeds returns True after
\* N + 1 attempts and N sleeps: the first of d, each later one the double of
\* the one before capped at 0.2 s.
C6_Backoff ==
    /\ (is_running /\ tx_min_gap = 0 /\ send_result = "dropped"
            /\ OverflowCanError(send_err))
        => attempt = max_send_retries
    /\ (tx_min_gap = 0 /\ send_result = "sent")
        => /\ Len(sleeps) = attempt - 1
           /\ \A i \in 1..Len(sleeps) :
                /\ sleeps[i].kind = "backoff"
                /\ sleeps[i].dur = IF i = 1 THEN send_retry_initial_delay
                                   ELSE Min(2 * sleeps[i - 1].dur, BackoffCap)

C6_Witness ==
    /\ send_result = "sent"
    /\ tx_min_gap = 0
    /\ send_retry_initial_delay = 500
    /\ attempt = 3
    /\ Len(sleeps) = 2

\* the sleeps of one kind among the sleeps of the current send
SleepsOfKind(k) == { i \in 1..Len(sleeps) : sleeps[i].kind = k }

\* C7: when every attempt fails with overflow and the worker is not stopped,
\* the send makes max_send_retries attempts with one backoff sleep between
\* two attempts, then sleeps tx_overflow_cooldown once if it is > 0, and
\* returns False.
C7_Exhaustion ==
    (send_result = "dropped" /\ OverflowCanError(send_err) /\ is_running)
        => /\ attempt = max_send_retries
           /\ Cardinality(SleepsOfKind("backoff")) = max_send_retries - 1
           /\ IF tx_overflow_cooldown > 0
              THEN /\ SleepsOfKind("cooldown") = {Len(sleeps)}
                   /\ sleeps[Len(sleeps)].dur = tx_overflow_cooldown
              ELSE SleepsOfKind("cooldown") = {}

C7_Witness ==
    /\ send_result = "dropped"
    /\ OverflowCanError(send_err)
    /\ is_running
    /\ max_send_retries = 3
    /\ attempt = 3
    /\ tx_overflow_cooldown = 50
    /\ Cardinality(SleepsOfKind("backoff")) = 2

\* C8: once stop() has been called, run() comes to an end
C8_StopEndsRun == (~is_running) ~> Terminated

C8_Witness ==
    /\ ~is_running
    /\ pc = "done"
    /\ io_called
    /\ exc = None

\* C9: when _open_buses fails at the start of run(), no recv or send is made,
\* no frame or recovery signal is emitted, error_occurred is emitted once with
\* the open error, finished is emitted, and the open is not tried again.
C9_OpenFailureAtStart ==
    (Terminated /\ exc.kind = "exc" /\ exc.text = "open")
        => /\ ~io_called
           /\ ~reopened
           /\ sig = [n \in Signals |->
                        IF n \in {"error_occurred", "finished"} THEN 1 ELSE 0]
           /\ last_error = WorkerError(exc)

\* a receive error that ends the run: not bus-off-classified, or retry disabled
FatalRecvError(e) == e.kind = "exc" /\ ~(retry_on_busoff /\ LooksBusOff(e))

RunEnding == pc \in {"except", "finally", "done", "raised"}

\* C10: a receive error that is not bus-off-classified, or any receive error
\* with retry_on_busoff disabled, ends the run at once: no recovery signal, no
\* reopen, no further poll, and the terminal error_occurred carries the error.
C10_FatalReceiveError ==
    /\ [][(pc \in {"poll_in", "poll_out"} /\ FatalRecvError(recv_err'))
            => /\ pc' = "except"
               /\ exc' = recv_err'
               /\ sig' = sig
               /\ reopened' = reopened]_vars
    /\ [][RunEnding
            => /\ RunEnding'
               /\ reopened' = reopened
               /\ \A n \in {"recovery_started", "recovery_succeeded",
                             "recovery_failed", "frame_received",
                             "frame_retransmitted"} : sig'[n] = sig[n]]_vars
    /\ [](pc \in {"finally", "done", "raised"} /\ exc.kind = "exc"
            => last_error = WorkerError(exc))

C10_Witness ==
    /\ pc = "done"
    /\ io_called
    /\ exc.kind = "exc"
    /\ exc.type = "Other"
    /\ exc.text = "plain"
    /\ last_error = WorkerError(exc)
    /\ sig["recovery_started"] = 0

\* the payloads of a sequence of messages
Payloads(q) == [i \in 1..Len(q) |-> q[i].data]

NotDropped(e) == ~e.dropped

\* the frames taken from bus b whose send has ended
Settled(b) ==
    IF pc = "send" /\ rx.bus = b
    THEN SubSeq(bus_log.taken[b], 1, Len(bus_log.taken[b]) - 1)
    ELSE bus_log.taken[b]

\* the messages of the frames taken from bus b and not reported as dropped
Kept(b) == [i \in 1..Len(SelectSeq(Settled(b), NotDropped)) |->
                SelectSeq(Settled(b), NotDropped)[i].msg]

\* C11: in each direction, the frames the destination bus accepted are, in
\* order, the frames taken from the source bus without the dropped ones:
\* none is reordered, none is sent twice.
C11_RelayOrder ==
    bus_log.kind = "log"
        => \A b \in Buses :
              Payloads(bus_log.sent[Opposite(b)]) = Payloads(Kept(b))

C11_Witness ==
    /\ bus_log.kind = "log"
    /\ Len(bus_log.taken["input"]) = 2
    /\ bus_log.taken["input"][1].dropped
    /\ Len(bus_log.sent["output"]) = 1
    /\ bus_log.sent["output"][1].data = bus_log.taken["input"][2].msg.data
    /\ bus_log.taken["input"][1].msg.data # bus_log.taken["input"][2].msg.data

\* C12: frame_received carries the channel of the bus the frame was read
\* from (1 Input, 0 Output) and frame_retransmitted the channel of the bus
\* the message was sent to, which is the other one.
C12_ChannelTags ==
    tx.kind = "msg"
        => /\ rx.channel = (IF rx.bus = "input" THEN 1 ELSE 0)
           /\ tx.bus = Opposite(rx.bus)
           /\ tx.channel = (IF tx.bus = "input" THEN 1 ELSE 0)
           /\ tx.channel = 1 - rx.channel

C12_Witness ==
    /\ send_result = "sent"
    /\ sig["frame_retransmitted"] = 2
    /\ rx.bus = "output"
    /\ rx.channel = 0
    /\ tx.channel = 1

\* run() has come to its end: it returned or raised, or emitted finished
RunOver == Terminated \/ sig["finished"] >= 1

\* C13: once stop() has been called and run() is over, the worker makes no
\* recv and no send, emits nothing and takes no frame from either bus.
C13_NothingAfterStop ==
    [][(~is_running /\ RunOver)
        => UNCHANGED <<pc, sig, frames_left, rx, tx, input_bus, output_bus,
                       last_tx_time, bus_log>>]_vars

C13_Witness ==
    /\ ~is_running
    /\ pc = "done"
    /\ sig["frame_retransmitted"] = 1
    /\ frames_left > 0
    /\ exc = None

\* the time the min-gap wait of the current send has slept
GapSlept ==
    IF sleeps # <<>> /\ sleeps[1].kind = "gap" THEN sleeps[1].dur ELSE 0

\* C14: with tx_min_gap = G > 0 and an earlier successful send to either bus,
\* the first attempt of a send starts at least G after the completion time
\* recorded for that earlier send.
C14_MinGap ==
    (pc = "send" /\ attempt = 1 /\ tx_min_gap > 0 /\ last_tx_time > 0)
        => gap_elapsed + GapSlept >= tx_min_gap

C14_Witness ==
    /\ pc = "send"
    /\ attempt = 1
    /\ tx_min_gap = 50
    /\ last_tx_time > 0
    /\ gap_elapsed = 20
    /\ sleeps = <<[kind |-> "gap", dur |-> 30]>>
    /\ sig["frame_retransmitted"] = 1

\* C15: every run emits finished exactly once and nothing after it; a run
\* ended by a fatal condition emits its 'Error in CAN worker' error once,
\* after every frame and recovery event and before finished.
C15_FinishedLast ==
    /\ [](Terminated => sig["finished"] = 1)
    /\ [](Terminated /\ exc.kind = "exc" => last_error = WorkerError(exc))
    /\ [][sig["finished"] >= 1 => sig' = sig]_vars
    /\ [][last_error.fatal
            => \A n \in Signals \ {"finished"} : sig'[n] = sig[n]]_vars
    /\ [][(last_error'.fatal /\ ~last_error.fatal)
            => /\ exc.kind = "exc"
               /\ sig' = Emit(sig, {"error_occurred"})
               /\ sig["finished"] = 0]_vars

\* the state an open of the pair leaves when Input opened and Output did not
HalfOpen == input_bus = "open" /\ output_bus # "open"

\* C20: when the Output bus fails to open, the Input instance opened by the
\* same attempt is shut down: the next reopen attempt does not replace it
\* un-shut and the end of the run does not leave it open.
C20_OpenAllOrNothing ==
    /\ [][(pc \in {"recover", "reopen"} /\ HalfOpen) => "input" \notin unshut_lost']_vars
    /\ [](Terminated => ~HalfOpen)

\* a row that is neither skipped nor made of two hexadecimal texts
BadRow(r) ==
    /\ ~(IsBlank(r[1]) /\ IsBlank(r[2]))
    /\ ~(IntBase16(r[1]).ok /\ IntBase16(r[2]).ok)

\* the rows that give a rule
RuleRows(table) ==
    { i \in 1..Len(table) :
        IntBase16(table[i][1]).ok /\ IntBase16(table[i][2]).ok }

\* C18: parse_rewrite_rules maps every row to int(orig,16) -> int(new,16),
\* skips the rows with two blank fields, lets the last row with an original ID
\* win, and on the first row with a non-hex or half-empty field raises
\* RuleParsingError with that row's index from 0 (index + 1 in the message)
\* and returns no mapping.
C18_ParseRules ==
    parse_result.kind # "none"
        => LET bad == { i \in 1..Len(table_data) : BadRow(table_data[i]) }
               good == RuleRows(table_data)
           IN  IF bad = {}
               THEN /\ parse_result.kind = "rules"
                    /\ DOMAIN parse_result.rules
                         = { IntBase16(table_data[i][1]).value : i \in good }
                    /\ \A i \in good :
                         (\A j \in good :
                            j > i => IntBase16(table_data[j][1]).value
                                        # IntBase16(table_data[i][1]).value)
                            => parse_result.rules[IntBase16(table_data[i][1]).value]
                                 = IntBase16(table_data[i][2]).value
               ELSE /\ parse_result.kind = "RuleParsingError"
                    /\ \A i \in bad : parse_result.row + 1 <= i
                    /\ parse_result.row + 1 \in bad
                    /\ parse_result.message_row = parse_result.row + 1
                    /\ "rules" \notin DOMAIN parse_result

C18_Witness ==
    /\ parse_result.kind = "RuleParsingError"
    /\ parse_result.row = 1
    /\ Len(table_data) = 2
    /\ IsBlank(table_data[1][1]) /\ IsBlank(table_data[1][2])
    /\ IntBase16(table_data[2][1]).ok
    /\ IsBlank(table_data[2][2])

\* the rows that the calls, in their order, stand for
RowsOf(calls) ==
    [i \in 1..Len(calls) |->
        <<IF Len(calls[i]) = 2 THEN ChannelText[calls[i][2]] ELSE "0",
          calls[i][1]>>]

\* a step that is a call of the FrameLogger method name
LoggerCall(name) == logger_op' # logger_op /\ logger_op'.name = name

\* C16: from a successful start_logging() to the next stop_logging() the CSV
\* holds one header row, then one row per log_frame call in call order with
\* the direction and channel of the call (channel 0 when left out); a
\* log_frame call on a logger that is not logging adds no row.
C16_CsvRows ==
    /\ [](is_logging => CsvFile = <<HeaderRow>> \o RowsOf(log_calls))
    /\ [][(LoggerCall("log_frame") /\ ~is_logging) => CsvFile' = CsvFile]_vars

\* C17: start_logging() with no path, or with a path that cannot be opened,
\* leaves is_logging False; log_frame and stop_logging on a logger that is
\* not logging change nothing.
C17_StartWithoutFile ==
    /\ [][(LoggerCall("start_logging") /\ log_file_path \in {"none", "bad"})
            => ~is_logging']_vars
    /\ [][((LoggerCall("log_frame") \/ LoggerCall("stop_logging"))
                /\ ~is_logging)
            => UNCHANGED <<log_file_path, log_file, csv_writer, is_logging,
                           disk, buf>>]_vars

\* the inputs c of a Start click do not pass the validation
FailsValidation(c) ==
    \/ c.channels = <<>>
    \/ /\ c.input_index < Len(c.channels)
       /\ c.output_index < Len(c.channels)
       /\ c.channels[c.input_index + 1] = c.channels[c.output_index + 1]
    \/ c.bitrate_kbps = "abc"
    \/ \E k \in 1..Len(c.table) : BadRow(c.table[k])

\* C19: is_running is True exactly when the button reads 'Stop' and exactly
\* when the mapping controls are disabled; a Start click that fails the
\* validation calls neither start_retransmission nor changes any of these.
C19_WindowState ==
    /\ [](win_is_running <=> button_text = "Stop")
    /\ [](win_is_running <=> ~mapping_enabled)
    /\ [][(/\ click' # click
            /\ click'.slot = "start_stop"
            /\ ~win_is_running
            /\ FailsValidation(click'))
            => UNCHANGED <<manager_calls, win_is_running, button_text,
                           mapping_enabled>>]_vars

C19_Witness ==
    /\ click.kind = "click"
    /\ click.slot = "start_stop"
    /\ click.channels = <<"vcan0", "vcan0">>
    /\ click.input_index = 0
    /\ click.output_index = 1
    /\ click.bitrate_kbps = "500"
    /\ click.table = <<>>
    /\ manager_calls = [start |-> 1, stop |-> 1]
    /\ ~win_is_running
    /\ button_text = "Start"

\* C21: the streak is set to 0 only by a received frame and goes up by
\* exactly 1 when, and only when, a recovery episode starts (neither
\* recovery_succeeded nor a receive timeout changes it); it stays within
\* 0..max(0, max_retries) and equals the number of episodes started since
\* the last received frame.
C21_BusoffStreak ==
    /\ [](/\ busoff_streak = episodes
          /\ 0 <= busoff_streak
          /\ busoff_streak <= Max(0, max_retries))
    /\ [][/\ sig'["recovery_started"] # sig["recovery_started"]
                => busoff_streak' = busoff_streak + 1
          /\ sig'["frame_received"] # sig["frame_received"]
                => busoff_streak' = 0
          /\ busoff_streak' # busoff_streak
                => \/ sig'["recovery_started"] = sig["recovery_started"] + 1
                   \/ sig'["frame_received"] = sig["frame_received"] + 1]_vars

\* two episodes after a frame, both succeeded, and the Input poll of the
\* next iteration timed out: the streak is still 2
C21_Witness ==
    /\ pc = "poll_out"
    /\ rx = None
    /\ busoff_streak = 2
    /\ sig["frame_received"] >= 1
    /\ sig["recovery_succeeded"] = 2

\* an episode of _attempt_recovery is in progress
InEpisode == pc \in {"recover", "reopen"}

\* C22: recovery_started opens an episode; until the episode ends nothing is
\* emitted, and it ends with exactly one of recovery_succeeded, after which
\* the loop goes on with both buses reopened, or recovery_failed, after which
\* run() emits the "bus off" error and makes no further recv.  Every episode
\* ends.
C22_RecoveryOutcome ==
    /\ [][sig'["recovery_started"] # sig["recovery_started"]
            => /\ ~InEpisode
               /\ InEpisode'
               /\ sig' = Emit(sig, {"recovery_started"})]_vars
    /\ [][InEpisode
            => IF InEpisode'
               THEN sig' = sig
               ELSE \/ /\ sig' = Emit(sig, {"recovery_succeeded"})
                       /\ pc' = "loop"
                       /\ input_bus' = "open"
                       /\ output_bus' = "open"
                       /\ reopened'
                    \/ /\ sig' = Emit(sig, {"recovery_failed"})
                       /\ pc' = "except"
                       /\ exc' = CanError("bus off")]_vars
    /\ [][(pc = "loop" /\ is_running /\ pc' # pc) => pc' = "poll_in"]_vars
    /\ [][(pc = "except" /\ pc' # pc)
            => /\ sig' = Emit(sig, {"error_occurred"})
               /\ last_error' = WorkerError(exc)
               /\ pc' = "finally"]_vars
    /\ [][(pc \in {"finally", "done", "raised"})
            => /\ pc' \in {"finally", "done", "raised"}
               /\ io_called' = io_called]_vars
    /\ (InEpisode ~> ~InEpisode)

\* an episode whose reopen attempt failed, and the run is over
C22_Witness ==
    /\ pc = "done"
    /\ sig["frame_received"] = 1
    /\ sig["recovery_started"] = 1
    /\ sig["recovery_succeeded"] = 0
    /\ sig["recovery_failed"] = 1
    /\ Len(rec_log) = 2
    /\ last_error = WorkerError(CanError("bus off"))

\* C23: once stop() has been called, an episode in progress makes no
\* _open_buses call: its next step is the return of False (recovery_failed,
\* then the "bus off" error).
C23_RecoveryCancelled ==
    [][(InEpisode /\ ~is_running /\ pc' # pc)
        => /\ pc = "recover"
           /\ pc' = "except"
           /\ sig' = Emit(sig, {"recovery_failed"})
           /\ input_bus' = input_bus
           /\ output_bus' = output_bus]_vars

\* the calls of one episode: sleeps of d alternate with at most n opens, and
\* nothing follows an open that found both buses open and usable
EpisodeShape(log, n, d) ==
    /\ Len(log) <= 2 * n
    /\ \A k \in 1..Len(log) :
        IF k % 2 = 1
        THEN log[k] = [kind |-> "sleep", dur |-> d]
        ELSE /\ log[k].kind = "open"
             /\ (log[k].opened /\ log[k].usable) => k = Len(log)

Succeeded(log) ==
    /\ Len(log) > 0
    /\ log[Len(log)].kind = "open"
    /\ log[Len(log)].opened
    /\ log[Len(log)].usable

\* C24: an episode starts with both buses shut down, then sleeps retry_delay
\* before each of at most max_retries reopen attempts; it returns True at
\* the first attempt that finds both buses open and usable and makes no
\* attempt after it; it returns False when max_retries attempts failed (or
\* when it was cancelled).
C24_RecoveryEpisode ==
    /\ [](EpisodeShape(rec_log, Max(0, max_retries), Max(0, retry_delay)))
    /\ [][(~InEpisode /\ InEpisode')
            => /\ input_bus' # "open"
               /\ output_bus' # "open"
               /\ rec_log' = <<>>]_vars
    /\ [][(InEpisode /\ ~InEpisode')
            => IF Succeeded(rec_log')
               THEN /\ pc' = "loop"
                    /\ sig' = Emit(sig, {"recovery_succeeded"})
                    /\ input_bus' = "open"
                    /\ output_bus' = "open"
               ELSE /\ pc' = "except"
                    /\ sig' = Emit(sig, {"recovery_failed"})
                    /\ \/ Len(rec_log') = 2 * Max(0, max_retries)
                       \/ ~is_running /\ pc = "recover"]_vars

\* the first attempt failed, the second one succeeded
C24_Witness ==
    /\ pc = "loop"
    /\ Len(rec_log) = 4
    /\ ~rec_log[2].opened
    /\ Succeeded(rec_log)
    /\ rec_log[3].dur = 500
    /\ input_bus = "open"
    /\ output_bus = "open"

\* the receive failures of the bus-off class: the text holds "bus off" in
\* any letter case, or the exception is a CanError or an AttributeError
BusOffClass(e) ==
    \/ e.text \in {"bus off", "CAN BUS OFF"}
    \/ e.type \in {"CanError", "AttributeError"}

\* C25: with retry_on_busoff and budget left, a receive failure starts a
\* recovery episode exactly when it is of the bus-off class; any other
\* receive failure goes to the outer handler as it is.
C25_BusOffClassification ==
    [][(/\ pc \in {"poll_in", "poll_out"}
        /\ recv_err'.kind = "exc"
        /\ retry_on_busoff
        /\ busoff_streak < Max(0, max_retries))
        => IF BusOffClass(recv_err')
           THEN /\ pc' = "recover"
                /\ sig' = Emit(sig, {"recovery_started"})
                /\ exc' = exc
           ELSE /\ pc' = "except"
                /\ exc' = recv_err'
                /\ sig' = sig]_vars

C25_Witness ==
    /\ pc = "recover"
    /\ recv_err = Exception("Other", "CAN BUS OFF")
    /\ sig["recovery_started"] = 1

\* a send failure that is not an overflow: not a CanError, or a CanError
\* whose text holds none of the overflow patterns
NotOverflowClass(e) == e.type # "CanError" \/ e.text = "plain"

\* C26: a send attempt that fails with anything but an overflow-classified
\* CanError ends the send at once: no further attempt, no sleep of any kind,
\* result False, and no exception reaches the relay loop.
C26_NonOverflowDrop ==
    [][(/\ pc = "send"
        /\ is_running' = is_running
        /\ send_err'.kind = "exc"
        /\ NotOverflowClass(send_err'))
        => /\ pc' = AfterSend(tx.bus)
           /\ send_result' = "dropped"
           /\ attempt' = attempt
           /\ sleeps' = sleeps
           /\ exc' = exc]_vars

C26_Witness ==
    /\ send_result = "dropped"
    /\ send_err = Exception("CanError", "plain")
    /\ is_running
    /\ attempt = 1
    /\ max_send_retries = 3
    /\ tx_overflow_cooldown = 50
    /\ sleeps = <<>>

\* a CanError whose text holds one of the overflow patterns
OverflowClass(e) == e.kind = "exc" /\ e.type = "CanError" /\ e.text # "plain"

\* C27: after stop(), a send in progress starts no new retry cycle: the
\* first send attempt made after the stop is the last one of that send, and
\* when it fails with an overflow the send sleeps the cooldown (if any) and
\* returns False.
C27_NoRetryAfterStop ==
    [][(pc = "send" /\ ~is_running)
        => /\ pc' # "send"
           /\ attempt' = attempt
           /\ OverflowClass(send_err') /\ send_result' # "sent"
                => /\ send_result' = "dropped"
                   /\ sleeps' = IF tx_overflow_cooldown > 0
                                 THEN Append(sleeps,
                                             [kind |-> "cooldown",
                                              dur |-> tx_overflow_cooldown])
                                 ELSE sleeps]_vars

\* stopped during the first backoff sleep: the second attempt was the last
\* of three
C27_Witness ==
    /\ ~is_running
    /\ send_result = "dropped"
    /\ OverflowClass(send_err)
    /\ max_send_retries = 3
    /\ attempt = 2
    /\ Len(sleeps) = 2
    /\ sleeps[1].kind = "backoff"
    /\ sleeps[2].kind = "cooldown"

\* frames taken from bus b that run() reported as dropped
Drops(b) ==
    Cardinality({k \in 1..Len(bus_log.taken[b]) : bus_log.taken[b][k].dropped})

\* frames taken from bus b whose send is still going on
InFlight(b) == IF pc = "send" /\ rx.bus = b THEN 1 ELSE 0

\* error_occurred events that report a dropped frame
DropEvents == sig["error_occurred"] - (IF last_error.fatal THEN 1 ELSE 0)

Takes(b) == Len(bus_log'.taken[b]) = Len(bus_log.taken[b]) + 1

\* C29: in one iteration of the loop each bus hands over at most one frame,
\* the Input bus before the Output bus, and between two frames taken from
\* one bus the worker calls recv on the other bus, also when a recovery
\* episode cut the iteration short.
C29_Alternation ==
    [][bus_log.kind = "log"
        => \A b \in Buses :
            Takes(b)
                => /\ b \notin bus_log.iter_taken
                   /\ b = "input" => bus_log.iter_taken = {}
                   /\ Len(bus_log.taken[b]) > 0 => bus_log.other_polled[b]]_vars

\* two frames from the Input bus, none from the Output bus, and a recovery
\* episode that succeeded
C29_Witness ==
    /\ bus_log.kind = "log"
    /\ Len(bus_log.taken["input"]) = 2
    /\ Len(bus_log.taken["output"]) = 0
    /\ sig["recovery_succeeded"] = 1

\* C30: after stop() the loop starts no new iteration; what is left of the
\* current iteration makes at most one recv call on each bus and relays at
\* most one frame to each bus.
C30_NoNewIteration ==
    /\ [][(~is_running /\ pc' = "poll_in") => pc = "poll_in"]_vars
    /\ [](bus_log.kind = "log"
            => \A b \in Buses : /\ bus_log.recv_after_stop[b] <= 1
                                 /\ bus_log.sent_after_stop[b] <= 1)

\* stop() came right after the loop test: one frame went each way after it
C30_Witness ==
    /\ bus_log.kind = "log"
    /\ pc = "done"
    /\ \A b \in Buses : /\ bus_log.recv_after_stop[b] = 1
                         /\ bus_log.sent_after_stop[b] = 1
                         /\ Len(bus_log.sent[b]) = 1

\* the min-gap waits among the sleeps of the current send
GapWaits == {k \in 1..Len(sleeps) : sleeps[k].kind = "gap"}

\* C31: within one send the min-gap wait happens at most once, before the
\* first attempt, and only with tx_min_gap > 0 after an earlier accepted
\* send; the retry steps never wait for the gap again, and _last_tx_time
\* changes only in the step where the bus accepts the message (a dropped
\* frame leaves it as it was).
C31_GapOnce ==
    /\ [](GapWaits \subseteq {1})
    /\ [][(pc # "send" /\ sleeps' # sleeps /\ GapWaits' # {})
            => /\ pc' = "send" /\ attempt' = 1
               /\ tx_min_gap > 0
               /\ sig["frame_retransmitted"] >= 1]_vars
    /\ [][(pc = "send") => GapWaits' = GapWaits]_vars
    /\ [][last_tx_time' # last_tx_time
            => /\ pc = "send"
               /\ send_result' = "sent"
               /\ sig' = Emit(sig, {"frame_retransmitted"})]_vars
    /\ [][(pc = "send" /\ send_result' = "dropped")
            => last_tx_time' = last_tx_time]_vars

\* the second send waited for the gap once, backed off twice and was dropped
C31_Witness ==
    /\ send_result = "dropped"
    /\ last_tx_time = 1
    /\ Len(sleeps) >= 3
    /\ sleeps[1].kind = "gap"
    /\ sleeps[2].kind = "backoff"
    /\ sleeps[3].kind = "backoff"
    /\ GapWaits = {1}

\* C32: for any constructor or throttle-option values, zero and negative
\* ones included, every send makes at least one attempt (a frame is dropped
\* only after bus.send raised), no sleep of negative duration is requested
\* (backoff, cooldown, min-gap, recovery delay), and a negative max_retries
\* allows no recovery attempt.
C32_ClampedOptions ==
    /\ [](/\ \A o \in ThrottleOptions :
                LET opts == set_throttle_options(o)
                IN  opts.msr >= 1 /\ opts.d >= 0 /\ opts.gap >= 0 /\ opts.cool >= 0
          /\ max_send_retries >= 1
          /\ pc = "send" => attempt \in 1..max_send_retries
          /\ \A k \in 1..Len(sleeps) : sleeps[k].dur >= 0
          /\ \A k \in 1..Len(rec_log) :
                rec_log[k].kind = "sleep" => rec_log[k].dur >= 0
          /\ max_retries < 0
                => /\ sig["recovery_started"] = 0
                   /\ ~reopened
                   /\ pc \notin {"recover", "reopen"})
    /\ [][(pc = "send" /\ (pc' # pc \/ attempt' # attempt))
            => (send_result' = "sent" \/ send_err' # None)]_vars

\* all options negative: the one attempt of a send failed and the frame was
\* dropped, then a recovery attempt slept for 0
C32_Witness ==
    /\ retry_delay < 0
    /\ max_send_retries = 1
    /\ sig["frame_received"] = 1
    /\ sig["error_occurred"] = 1
    /\ ~last_error.fatal
    /\ Len(rec_log) >= 1
    /\ rec_log[1] = [kind |-> "sleep", dur |-> 0]

\* C33: at loop exit an endpoint whose shutdown() raises does not keep the
\* other endpoint from being shut down nor finished from being emitted, and
\* the error does not escape run().
C33_ShutdownErrorContained ==
    Terminated
        => /\ pc = "done"
           /\ sig["finished"] = 1
           /\ input_bus # "open"
           /\ output_bus # "open"

\* the inputs c of a Start click pass the checks made before the mapping
\* table is read
ReachesMapping(c) ==
    /\ c.channels # <<>>
    /\ c.input_index < Len(c.channels)
    /\ c.output_index < Len(c.channels)
    /\ c.channels[c.input_index + 1] # c.channels[c.output_index + 1]
    /\ c.bitrate_kbps # "abc"

\* the rows of the mapping table, counted from 0, that hold an invalid entry
InvalidRows(table) == { k \in 0..(Len(table) - 1) : BadRow(table[k + 1]) }

\* C34: when the mapping table holds an invalid rule, _get_rewrite_rules
\* returns None (nothing is started), shows a "Mapping Error" and selects the
\* table row that holds the first invalid entry, also when blank rows stand
\* above it.
C34_InvalidRuleRow ==
    [][(/\ click' # click
        /\ click'.slot = "start_stop"
        /\ ~win_is_running
        /\ ReachesMapping(click')
        /\ InvalidRows(click'.table) # {})
        => /\ message' = "Mapping Error"
           /\ UNCHANGED <<manager_calls, win_is_running>>
           /\ current_row' \in InvalidRows(click'.table)
           /\ \A k \in InvalidRows(click'.table) : current_row' <= k]_vars

\* recovery episodes that were started and have not been closed
OpenEpisodes ==
    sig["recovery_started"] - sig["recovery_succeeded"] - sig["recovery_failed"]

\* C35: the recovery events alternate: recovery_started opens an episode
\* when none is open, and recovery_succeeded and recovery_failed are emitted
\* only to close the episode that is open.
C35_RecoveryEventsAlternate ==
    /\ [](OpenEpisodes \in {0, 1})
    /\ [][sig'["recovery_started"] # sig["recovery_started"]
            => OpenEpisodes = 0 /\ OpenEpisodes' = 1]_vars
    /\ [][(\/ sig'["recovery_succeeded"] # sig["recovery_succeeded"]
           \/ sig'["recovery_failed"] # sig["recovery_failed"])
            => OpenEpisodes = 1 /\ OpenEpisodes' = 0]_vars

\* the endpoint the worker's next call goes to: recv of a poll, send of a relay
UsedBus ==
    IF pc = "poll_in" THEN {input_bus}
    ELSE IF pc = "poll_out" THEN {output_bus}
    ELSE IF pc = "send" THEN {IF tx.bus = "input" THEN input_bus ELSE output_bus}
    ELSE {}

\* C36: no recv or send is called on an instance after its shutdown(); an
\* instance that was shut down is only ever replaced by a newly opened one,
\* so after a successful recovery every poll and every send uses the new
\* instances, whatever receive errors, partial reopen failures and stop()
\* calls came before.
C36_NoUseAfterShutdown ==
    /\ [](UsedBus \subseteq {"open"})
    /\ [][(\/ input_bus = "shut" /\ input_bus' = "open"
           \/ output_bus = "shut" /\ output_bus' = "open")
            => pc = "reopen" /\ reopened']_vars
    /\ [][sig'["recovery_succeeded"] # sig["recovery_succeeded"]
            => /\ pc = "reopen" /\ pc' = "loop"
               /\ rec_log'[Len(rec_log')].kind = "open"
               /\ rec_log'[Len(rec_log')].opened
               /\ input_bus' = "open" /\ output_bus' = "open"]_vars

\* after stop(), a reopen attempt that failed on the Output bus and one
\* that succeeded, a frame is being sent
C36_Witness ==
    /\ pc = "send"
    /\ ~is_running
    /\ sig["recovery_succeeded"] = 1
    /\ last_open_error # None
    /\ reopened
    /\ input_bus = "open"
    /\ output_bus = "open"

\* C37: after any sequence of FrameLogger calls is_logging is True exactly
\* when a log file is open and a CSV writer is set, no file is open while
\* is_logging is False, and a stop_logging() that follows a stop_logging()
\* changes nothing.
C37_LoggerState ==
    /\ [](is_logging <=> (log_file = "open" /\ csv_writer))
    /\ [](~is_logging => log_file # "open")
    /\ [][(/\ logger_op.kind = "call"
            /\ logger_op.name = "stop_logging"
            /\ LoggerCall("stop_logging"))
            => UNCHANGED <<log_file_path, log_file, csv_writer, is_logging,
                           disk, buf>>]_vars

\* worker run loops that are active
RunLoops == orphans + (IF manager.thread = "running" THEN 1 ELSE 0)

\* a step that is a call of the CANManager method name
ManagerCall(name) == mgr_op' # mgr_op /\ mgr_op'.name = name

\* C38: after any sequence of start_retransmission / stop_retransmission
\* calls at most one worker run loop is active; a start while the previous
\* thread is running stops that worker first and the thread has ended when
\* the new one starts; stop_retransmission with nothing running raises
\* nothing, and changes nothing when no thread is held.
C38_OneRunLoop ==
    /\ [](RunLoops <= 1)
    /\ [][(ManagerCall("start_retransmission") /\ manager.thread = "running")
            => mgr_op'.stopped /\ orphans' = orphans]_vars
    /\ [][(ManagerCall("stop_retransmission") /\ manager.thread # "running")
            => /\ ~mgr_op'.raised
               /\ manager.thread = "none" => manager' = manager]_vars

\* C39: every FrameLogger that start_retransmission starts is stopped before
\* it is replaced by a new one or dropped, also when the worker ended on its
\* own and retransmission is started again without a stop_retransmission.
C39_LoggerStopped ==
    /\ [](lost_loggers = 0)
    /\ [][manager'.frame_logger # manager.frame_logger
            => \/ manager.frame_logger # "open"
               \/ /\ mgr_op' # mgr_op
                  /\ mgr_op'.stopped]_vars

\* C40: while the window is in the not-running state no worker is relaying
\* frames: an error_occurred event moves the window to not-running only when
\* the error ended the worker's run; a dropped-frame error leaves the window
\* running.
C40_NotRunningMeansIdle ==
    /\ [](~win_is_running => RunLoops = 0)
    /\ [][(/\ click' # click
            /\ click'.slot = "error"
            /\ ~click'.fatal)
            => win_is_running' = win_is_running]_vars

====
